---------------------------- MODULE Spec2Model ----------------------------
(***************************************************************************)
(* Market-source routing and response normalisation of memebetsimulator:   *)
(* the market router (backend/services/market_data.py), the coin-market    *)
(* client (pump_fun_market_data.py) and the equity client                  *)
(* (xueqiu_market_data.py).                                                *)
(*                                                                         *)
(* Text is a sequence of one-character strings, so that splitting,         *)
(* trimming and case conversion are computed as the code computes them.    *)
(* Numbers are exact fractions [n, d]; d = 0 stands for a float NaN.       *)
(***************************************************************************)
EXTENDS Integers, Sequences, FiniteSets, TLC

(***************************************************************************)
(* Bounds of the model.                                                    *)
(***************************************************************************)
\* longest cookie text enumerated exhaustively for the parser
MaxLen == 5
\* largest list-coins limit enumerated
MaxLimit == 5

(***************************************************************************)
(* Text.                                                                   *)
(***************************************************************************)
\* Python's None, where a text is expected
None == <<"<None>">>

Space == " "
Newline == "\n"
Semicolon == ";"
EqualsSign == "="

\* str.strip() removes these
Whitespace == {Space, Newline}

\* the characters cookie texts are built from
CookieAlphabet == {"a", "1", EqualsSign, Semicolon, Space, Newline}

RECURSIVE TextsOfLen(_, _)
TextsOfLen(alphabet, n) ==
  IF n = 0 THEN {<<>>}
  ELSE {Append(t, c) : t \in TextsOfLen(alphabet, n - 1), c \in alphabet}

TextsUpTo(alphabet, n) == UNION {TextsOfLen(alphabet, k) : k \in 0..n}

\* needle in haystack
Contains(haystack, needle) ==
  \E i \in 1..(Len(haystack) - Len(needle) + 1) :
    SubSeq(haystack, i, i + Len(needle) - 1) = needle

\* str.find: index of the first occurrence, 0 when there is none
Find(haystack, needle) ==
  IF Contains(haystack, needle)
  THEN CHOOSE i \in 1..(Len(haystack) - Len(needle) + 1) :
         /\ SubSeq(haystack, i, i + Len(needle) - 1) = needle
         /\ \A j \in 1..(i - 1) : SubSeq(haystack, j, j + Len(needle) - 1) # needle
  ELSE 0

RECURSIVE LStrip(_)
LStrip(s) == IF s # <<>> /\ Head(s) \in Whitespace THEN LStrip(Tail(s)) ELSE s

RECURSIVE RStrip(_)
RStrip(s) ==
  IF s # <<>> /\ s[Len(s)] \in Whitespace THEN RStrip(SubSeq(s, 1, Len(s) - 1)) ELSE s

\* str.strip()
Strip(s) == RStrip(LStrip(s))

\* str.split(sep): left to right, non-overlapping
RECURSIVE Split(_, _)
Split(s, sep) ==
  LET i == Find(s, sep)
  IN  IF i = 0 THEN <<s>>
      ELSE <<SubSeq(s, 1, i - 1)>> \o Split(SubSeq(s, i + Len(sep), Len(s)), sep)

\* cookie.rsplit('=', 1): the split at the last '=' instead of the first
SplitLastEq(cookie) ==
  LET i == CHOOSE j \in 1..Len(cookie) :
             cookie[j] = EqualsSign /\ \A k \in (j + 1)..Len(cookie) : cookie[k] # EqualsSign
  IN  [key |-> SubSeq(cookie, 1, i - 1), value |-> SubSeq(cookie, i + 1, Len(cookie))]

\* key, value = cookie.split('=', 1), for a cookie that holds an '='
SplitFirstEq(cookie) ==
  LET i == Find(cookie, <<EqualsSign>>)
  IN  [key |-> SubSeq(cookie, 1, i - 1), value |-> SubSeq(cookie, i + 1, Len(cookie))]

\* a dict of cookies: a function from names to values
EmptyDict == [k \in {} |-> <<>>]

\* cookies[key] = value
DictSet(cookies, key, value) ==
  [k \in DOMAIN cookies \cup {key} |-> IF k = key THEN value ELSE cookies[k]]

\* dict.update / RequestsCookieJar.update with a dict
DictUpdate(cookies, new) ==
  [k \in DOMAIN cookies \cup DOMAIN new |-> IF k \in DOMAIN new THEN new[k] ELSE cookies[k]]


(***************************************************************************)
(* Numbers: a float is the exact fraction n/d in lowest terms with d > 0;  *)
(* d = 0 is NaN, which compares false with everything and is truthy.       *)
(***************************************************************************)
Abs(x) == IF x < 0 THEN -x ELSE x

RECURSIVE GCD(_, _)
GCD(a, b) == IF b = 0 THEN a ELSE GCD(b, a % b)

NaN == [n |-> 0, d |-> 0]

Frac(n, d) ==
  IF d = 0 THEN NaN
  ELSE LET g == GCD(Abs(n), Abs(d))
           sign == IF d < 0 THEN -1 ELSE 1
       IN  [n |-> sign * (n \div g), d |-> sign * (d \div g)]

Whole(n) == [n |-> n, d |-> 1]

Zero == Whole(0)

\* x > 0 and x <= 0 on floats
GtZero(x) == x.d > 0 /\ x.n > 0

LeZero(x) == x.d > 0 /\ x.n <= 0

\* bool(x) of a float
NumTruthy(x) == ~(x.d > 0 /\ x.n = 0)

\* a / b with b not zero
Div(a, b) == IF a.d = 0 \/ b.d = 0 THEN NaN ELSE Frac(a.n * b.d, a.d * b.n)

(***************************************************************************)
(* Decoded JSON, and the Python operations the code applies to it.  An     *)
(* operation that raises gives Raised.                                     *)
(***************************************************************************)
JNull == [t |-> "null"]

JNum(x) == [t |-> "num", v |-> x]

JStr(chars) == [t |-> "str", s |-> chars]

JBool(b) == [t |-> "bool", b |-> b]

JList(items) == [t |-> "list", items |-> items]

\* fields: a function from key names to decoded values
JDict(fields) == [t |-> "dict", fields |-> fields]

NoFields == [k \in {} |-> JNull]

Raised == [t |-> "raised"]

\* bool(x)
Truthy(x) ==
  CASE x.t = "null" -> FALSE
    [] x.t = "num" -> NumTruthy(x.v)
    [] x.t = "bool" -> x.b
    [] x.t = "str" -> x.s # <<>>
    [] x.t = "list" -> x.items # <<>>
    [] x.t = "dict" -> DOMAIN x.fields # {}

\* key in x raises TypeError: None, numbers and booleans are no containers
KeyInRaises(x) == x.t \notin {"dict", "list", "str"}

\* key in x, for a container x; a list of records or a text of the model
\* never holds the key
KeyIn(key, x) == x.t = "dict" /\ key \in DOMAIN x.fields

\* x.get(key, default): Raised unless x is a dict
DictGet(x, key, default) ==
  IF x.t # "dict" THEN Raised
  ELSE IF key \in DOMAIN x.fields THEN x.fields[key] ELSE default

\* x[key] for a text key: Raised unless x is a dict holding the key
Subscript(x, key) ==
  IF x.t = "dict" /\ key \in DOMAIN x.fields THEN x.fields[key] ELSE Raised

Digits == <<"0", "1", "2", "3", "4", "5", "6", "7", "8", "9">>

IsDigit(c) == \E i \in 1..10 : Digits[i] = c

DigitValue(c) == (CHOOSE i \in 1..10 : Digits[i] = c) - 1

RECURSIVE DigitsValue(_)
DigitsValue(ds) ==
  IF ds = <<>> THEN 0 ELSE 10 * DigitsValue(SubSeq(ds, 1, Len(ds) - 1)) + DigitValue(ds[Len(ds)])

RECURSIVE Pow10(_)
Pow10(k) == IF k = 0 THEN 1 ELSE 10 * Pow10(k - 1)

\* the digits of a number text: at least one digit, digits only
FloatOfDigits(neg, whole, frac) ==
  IF whole \o frac # <<>> /\ \A i \in 1..Len(whole \o frac) : IsDigit((whole \o frac)[i])
  THEN Frac((IF neg THEN -1 ELSE 1) * DigitsValue(whole \o frac), Pow10(Len(frac)))
  ELSE Raised

\* the text split at its decimal point, which is at dot (0: none)
FloatOfUnsigned(neg, unsigned, dot) ==
  FloatOfDigits(neg,
                IF dot = 0 THEN unsigned ELSE SubSeq(unsigned, 1, dot - 1),
                IF dot = 0 THEN <<>> ELSE SubSeq(unsigned, dot + 1, Len(unsigned)))

FloatOfSigned(neg, unsigned) == FloatOfUnsigned(neg, unsigned, Find(unsigned, <<".">>))

FloatOfStripped(body) ==
  FloatOfSigned(body # <<>> /\ Head(body) = "-",
                IF body # <<>> /\ Head(body) = "-" THEN Tail(body) ELSE body)

\* float(text): surrounding whitespace ignored, an optional sign, digits with
\* an optional fraction; anything else raises ValueError
FloatOfText(chars) == FloatOfStripped(Strip(chars))

\* float(x): a number as it is, True and False as 1.0 and 0.0, a text
\* parsed, anything else TypeError
Float(x) ==
  CASE x.t = "num" -> x.v
    [] x.t = "bool" -> IF x.b THEN Whole(1) ELSE Zero
    [] x.t = "str" -> FloatOfText(x.s)
    [] OTHER -> Raised

(***************************************************************************)
(* The coin-market client (PumpFunMarketData).                             *)
(***************************************************************************)
\* an upstream answer: the transport failed, or a status with a decoded body;
\* BadJson is a body response.json() cannot decode
BadJson == [t |-> "badjson"]

TransportError == [net |-> "error"]

Http(status, body) == [net |-> "ok", status |-> status, body |-> body]

Mint1 ==
  <<"1", "1", "1", "1", "1", "1", "1", "1", "1", "1", "1", "1", "1", "1",
    "1", "1", "1", "1", "1", "1", "1", "1", "1", "1", "1", "1", "1", "1",
    "1", "1", "1", "2">>

Mint2 ==
  <<"2", "2", "2", "2", "2", "2", "2", "2", "2", "2", "2", "2", "2", "2",
    "2", "2", "2", "2", "2", "2", "2", "2", "2", "2", "2", "2", "2", "2",
    "2", "2", "2", "3">>

Mint3 ==
  <<"3", "3", "3", "3", "3", "3", "3", "3", "3", "3", "3", "3", "3", "3",
    "3", "3", "3", "3", "3", "3", "3", "3", "3", "3", "3", "3", "3", "3",
    "3", "3", "3", "4">>

ImageUri ==
  <<"h", "t", "t", "p", "s", ":", "/", "/", "v", "i", "a", ".", "p", "l",
    "a", "c", "e", "h", "o", "l", "d", "e", "r", ".", "c", "o", "m", "/",
    "1", "0", "0">>

TestCoinName ==
  <<"T", "e", "s", "t", "C", "o", "i", "n">>

TestCoinSymbol ==
  <<"T", "E", "S", "T">>

TestCoinDescription ==
  <<"A", " ", "t", "e", "s", "t", " ", "m", "e", "m", "e", " ", "c", "o",
    "i", "n", " ", "f", "o", "r", " ", "s", "i", "m", "u", "l", "a", "t",
    "i", "o", "n">>

MoonDogeName ==
  <<"M", "o", "o", "n", "D", "o", "g", "e">>

MoonDogeSymbol ==
  <<"M", "D", "O", "G", "E">>

MoonDogeDescription ==
  <<"G", "o", "i", "n", "g", " ", "t", "o", " ", "t", "h", "e", " ", "m",
    "o", "o", "n", " ", "w", "i", "t", "h", " ", "t", "h", "i", "s", " ",
    "d", "o", "g", "e">>

PepeCoinName ==
  <<"P", "e", "p", "e", "C", "o", "i", "n">>

PepeCoinSymbol ==
  <<"P", "E", "P", "E">>

PepeCoinDescription ==
  <<"R", "a", "r", "e", " ", "p", "e", "p", "e", " ", "m", "e", "m", "e",
    " ", "c", "o", "i", "n">>

\* one record of mock_coins in _get_mock_coins_data
MockCoin(mint, name, symbol, description, cap, created, traded) ==
  JDict([mint |-> JStr(mint), name |-> JStr(name), symbol |-> JStr(symbol),
         description |-> JStr(description),
         image_uri |-> JStr(ImageUri),
         usd_market_cap |-> JNum(Whole(cap)), total_supply |-> JNum(Whole(1000000000)),
         created_timestamp |-> JNum(Whole(created)),
         last_trade_timestamp |-> JNum(Whole(traded)),
         nsfw |-> JBool(FALSE), complete |-> JBool(FALSE)])

TestCoin ==
  MockCoin(Mint1, TestCoinName, TestCoinSymbol, TestCoinDescription,
           100000, 1700000000, 1700001000)

MoonDoge ==
  MockCoin(Mint2, MoonDogeName, MoonDogeSymbol, MoonDogeDescription,
           250000, 1700000100, 1700001100)

PepeCoin ==
  MockCoin(Mint3, PepeCoinName, PepeCoinSymbol, PepeCoinDescription,
           500000, 1700000200, 1700001200)

MockCoins == <<TestCoin, MoonDoge, PepeCoin>>

Min(a, b) == IF a <= b THEN a ELSE b

Max(a, b) == IF a >= b THEN a ELSE b

\* a slice that does not cut: the whole list whatever k is
WholeList(seq, k) == seq

\* seq[:k] of Python: a negative k counts from the end
SliceTo(seq, k) ==
  IF k >= 0 THEN SubSeq(seq, 1, Min(k, Len(seq)))
  ELSE SubSeq(seq, 1, Max(0, Len(seq) + k))

\* _get_mock_coins_data(limit)
GetMockCoinsData(limit) == JList(SliceTo(MockCoins, limit))

\* _normalize_api_response(data)
NormalizeApiResponse(data) ==
  IF data.t = "list" THEN data
  ELSE IF data.t = "dict" /\ "data" \in DOMAIN data.fields THEN data.fields["data"]
  ELSE IF data.t = "dict" /\ "coins" \in DOMAIN data.fields THEN data.fields["coins"]
  ELSE JList(<<>>)

\* a policy that degrades on every server failure, not on 530 alone
IsServerFailure(status) == status >= 500

\* "if response.status_code == 530": the one status that is answered with
\* the mock coins
IsRecognizedFailure(status) == status = 530

\* get_coins_list(limit, ...): what it returns for the upstream's answer
\* resp; offset, sort, order and include_nsfw only travel to the upstream
GetCoinsList(limit, resp) ==
  IF resp.net = "error" THEN JList(<<>>)
  ELSE IF resp.status = 200
       THEN IF resp.body = BadJson THEN JList(<<>>) ELSE NormalizeApiResponse(resp.body)
  ELSE IF IsRecognizedFailure(resp.status) THEN GetMockCoinsData(limit)
  ELSE JList(<<>>)

\* get_coin_data(mint_address) / get_pump_fun_coin: the body on a 200, else None
GetCoinData(resp) ==
  IF resp.net = "error" THEN JNull
  ELSE IF resp.status = 200
       THEN IF resp.body = BadJson THEN JNull ELSE resp.body
  ELSE JNull

\* the requests of get_coins_list and get_coin_trades
CoinsListRequest(limit) == [endpoint |-> "pump/coins", limit |-> limit]

TradesRequest(mint_address, limit) ==
  [endpoint |-> "pump/trades/{mint}", symbol |-> mint_address, limit |-> limit]

\* a client that sends the request again when the answer is no 200
RetryCalls(request, resp) ==
  IF resp.net = "ok" /\ resp.status = 200 THEN <<request>> ELSE <<request, request>>

\* the requests one call of get_coins_list, get_coin_data or get_coin_trades
\* sends: its one session.get, in a try block without a loop, whatever the
\* answer is
PumpCalls(request, resp) == <<request>>

\* a client that takes every 2xx answer for a success
TradesOnSuccess(resp) ==
  IF resp.net = "error" THEN JList(<<>>)
  ELSE IF 200 <= resp.status /\ resp.status < 300
       THEN IF resp.body = BadJson THEN JList(<<>>) ELSE resp.body
  ELSE JList(<<>>)

\* get_coin_trades(mint_address, limit, offset): the body on a 200, else [];
\* limit and offset only travel to the upstream
GetCoinTrades(resp) ==
  IF resp.net = "error" THEN JList(<<>>)
  ELSE IF resp.status = 200
       THEN IF resp.body = BadJson THEN JList(<<>>) ELSE resp.body
  ELSE JList(<<>>)

\* mock_prices of get_last_price_from_pump_fun
MockPriceMints == {Mint1, Mint2, Mint3}

\* a table of mock prices that was not kept in step with the mock coins
StalePrice(mint) ==
  CASE mint = Mint1 -> Frac(1, 10000)
    [] mint = Mint2 -> Frac(2, 10000)
    [] mint = Mint3 -> Frac(5, 10000)

MockPrice(mint) ==
  CASE mint = Mint1 -> Frac(1, 10000)
    [] mint = Mint2 -> Frac(25, 100000)
    [] mint = Mint3 -> Frac(5, 10000)

\* a fallback without the table of mock prices
AlwaysZero(mint_address) == Zero

\* the fallback after the if: the mock price of a mock mint, else 0.0
MockPriceOrZero(mint_address) ==
  IF mint_address \in MockPriceMints THEN MockPrice(mint_address) ELSE Zero

\* a default supply of a million tokens instead of a billion
MillionSupply == 1000 * 1000

\* total_supply when the record has none
DefaultSupply == 1000000000

\* get_last_price_from_pump_fun(mint_address): any exception gives 0.0
GetLastPriceFromPumpFun(mint_address, resp) ==
  LET coin_data == GetCoinData(resp)
      market_cap == DictGet(coin_data, "usd_market_cap", JNum(Zero))
      supply == DictGet(coin_data, "total_supply", JNum(Whole(DefaultSupply)))
  IN  IF ~Truthy(coin_data) THEN MockPriceOrZero(mint_address)
      ELSE IF KeyInRaises(coin_data) THEN Zero
      ELSE IF ~KeyIn("usd_market_cap", coin_data) THEN MockPriceOrZero(mint_address)
      ELSE IF supply.t # "num" THEN Zero
      ELSE IF ~GtZero(supply.v) THEN MockPriceOrZero(mint_address)
      ELSE IF market_cap.t # "num" THEN Zero
      ELSE Div(market_cap.v, supply.v)

(***************************************************************************)
(* The equity client (XueqiuMarketData).                                   *)
(***************************************************************************)
Day == <<"d", "a", "y">>

Minute == <<"m", "i", "n", "u", "t", "e">>

Period1d == <<"1", "d">>

Period1m == <<"1", "m">>

\* the requests the operations send, as they are recorded
QuoteRequest(symbol) == [endpoint |-> "xueqiu/quote", symbol |-> symbol]

\* get_kline_data's params: '1d' and '1m' are renamed, count goes out negative
KlineRequest(symbol, period, count) ==
  [endpoint |-> "xueqiu/kline", symbol |-> symbol,
   period |-> IF period = Period1d THEN Day ELSE IF period = Period1m THEN Minute ELSE period,
   count |-> -Abs(count)]

\* get_kline_data, from "if data.get('error_code') == 0 or 'data' in data":
\* the body when its data holds items, else None (an AttributeError on a
\* data that is no dict is caught and gives None)
KlineDataOrNone(data) ==
  IF DictGet(data, "error_code", JNull) = JNum(Zero) \/ KeyIn("data", data)
  THEN IF KeyIn("data", data)
          /\ Truthy(data.fields["data"])
          /\ data.fields["data"].t = "dict"
          /\ Truthy(DictGet(data.fields["data"], "item", JNull))
       THEN data
       ELSE JNull
  ELSE JNull

\* get_kline_data: the decoded body when it holds items, else None
XueqiuGetKlineData(resp) ==
  IF resp.net = "error" THEN JNull
  ELSE IF resp.status # 200 THEN JNull
  ELSE IF resp.body = BadJson THEN JNull
  ELSE IF resp.body.t # "dict" THEN JNull
  ELSE KlineDataOrNone(resp.body)

\* the try block of get_latest_price gives the quote's current price when it
\* is positive; NoQuotePrice when the block falls through or raises
NoQuotePrice == [t |-> "fallback"]

\* "if current_price and float(current_price) > 0", on float's result
PositiveQuote(price) ==
  IF price = Raised THEN NoQuotePrice
  ELSE IF GtZero(price) THEN price
  ELSE NoQuotePrice

QuoteCurrent(current_price) ==
  IF ~Truthy(current_price) THEN NoQuotePrice ELSE PositiveQuote(Float(current_price))

\* data['data']['quote'].get('current')
QuoteOfQuote(quote) ==
  IF quote.t # "dict" THEN NoQuotePrice ELSE QuoteCurrent(DictGet(quote, "current", JNull))

\* 'quote' in data['data']
QuoteOfInner(inner) ==
  IF KeyInRaises(inner) \/ ~KeyIn("quote", inner) THEN NoQuotePrice
  ELSE QuoteOfQuote(inner.fields["quote"])

\* 'data' in data
QuoteOfBody(data) ==
  IF KeyInRaises(data) \/ ~KeyIn("data", data) THEN NoQuotePrice
  ELSE QuoteOfInner(data.fields["data"])

QuotePrice(resp) ==
  IF resp.net = "error" THEN NoQuotePrice
  ELSE IF resp.status >= 400 THEN NoQuotePrice
  ELSE IF resp.body = BadJson THEN NoQuotePrice
  ELSE QuoteOfBody(resp.body)

\* list.index(x): the first position, counted from 0
IndexOf(columns, name) ==
  (CHOOSE i \in 1..Len(columns) :
     columns[i] = name /\ \A j \in 1..(i - 1) : columns[j] # name) - 1

InList(name, columns) == \E i \in 1..Len(columns) : columns[i] = name

Close == <<"c", "l", "o", "s", "e">>

\* the texts of a decoded list of column names (None for what is no text)
NamesOf(columns) ==
  [i \in 1..Len(columns) |-> IF columns[i].t = "str" THEN columns[i].s ELSE None]

\* "if price and float(price) > 0", on float's result; not inside a try
PositiveClose(price) ==
  IF price = Raised THEN Raised
  ELSE IF GtZero(price) THEN price
  ELSE JNull

ClosePrice(price) == IF ~Truthy(price) THEN JNull ELSE PositiveClose(Float(price))

\* latest_item[close_index], when the row is long enough
CloseOfRow(latest_item, close_index) ==
  IF latest_item.t # "list" THEN Raised
  ELSE IF ~(Len(latest_item.items) > close_index) THEN JNull
  ELSE ClosePrice(latest_item.items[close_index + 1])

\* "if 'close' in columns"
CloseByName(latest_item, names) ==
  IF ~InList(Close, names) THEN JNull ELSE CloseOfRow(latest_item, IndexOf(names, Close))

\* items[0] and data.get('column', [])
CloseOfTable(items, columns) ==
  IF ~Truthy(items) THEN JNull
  ELSE IF items.t # "list" THEN Raised
  ELSE IF columns.t \in {"str", "dict"} THEN JNull
  ELSE IF columns.t # "list" THEN Raised
  ELSE CloseByName(items.items[1], NamesOf(columns.items))

KlineTablePrice(data) ==
  CloseOfTable(DictGet(data, "item", JList(<<>>)), DictGet(data, "column", JList(<<>>)))

\* the rest of get_latest_price, on what get_kline_data(symbol, 'day', 1)
\* gave: a price, None, or Raised (nothing here is inside a try)
KlinePrice(kline_data) ==
  IF ~Truthy(kline_data) \/ ~KeyIn("data", kline_data) THEN JNull
  ELSE KlineTablePrice(kline_data.fields["data"])

\* a fallback that is always taken: the candle is asked for whatever the
\* quote gave
CandleAlways(symbol, quotePrice, klineResp) ==
  [out |-> IF quotePrice # NoQuotePrice THEN quotePrice
           ELSE KlinePrice(XueqiuGetKlineData(klineResp)),
   calls |-> <<QuoteRequest(symbol), KlineRequest(symbol, Day, 1)>>]

\* the fallback of get_latest_price, taken when the quote gave no price
LatestPriceAfterQuote(symbol, quotePrice, klineResp) ==
  IF quotePrice # NoQuotePrice
  THEN [out |-> quotePrice, calls |-> <<QuoteRequest(symbol)>>]
  ELSE [out |-> KlinePrice(XueqiuGetKlineData(klineResp)),
        calls |-> <<QuoteRequest(symbol), KlineRequest(symbol, Day, 1)>>]

\* get_latest_price(symbol): the price, None or Raised, and the requests sent
XueqiuGetLatestPrice(symbol, quoteResp, klineResp) ==
  LatestPriceAfterQuote(symbol, QuotePrice(quoteResp), klineResp)

\* "if price is None or price <= 0: raise"
PriceOrRaise(got) ==
  [out |-> IF got.out = Raised \/ got.out = JNull THEN Raised
           ELSE IF LeZero(got.out) THEN Raised
           ELSE got.out,
   calls |-> got.calls]

\* get_last_price_from_xueqiu(symbol, market): the price, or Raised
GetLastPriceFromXueqiu(symbol, quoteResp, klineResp) ==
  PriceOrRaise(XueqiuGetLatestPrice(symbol, quoteResp, klineResp))

\* the column names parse_kline_data looks for, as the upstream spells them
FieldName ==
  [timestamp |-> <<"t", "i", "m", "e", "s", "t", "a", "m", "p">>,
   open |-> <<"o", "p", "e", "n">>,
   high |-> <<"h", "i", "g", "h">>,
   low |-> <<"l", "o", "w">>,
   close |-> <<"c", "l", "o", "s", "e">>,
   volume |-> <<"v", "o", "l", "u", "m", "e">>,
   amount |-> <<"a", "m", "o", "u", "n", "t">>,
   chg |-> <<"c", "h", "g">>,
   percent |-> <<"p", "e", "r", "c", "e", "n", "t">>]

FloatFields == {"open", "high", "low", "close", "volume", "amount", "chg", "percent"}

\* a column map that sends every name to the first column
FirstColumn(columns, name) == 0

\* column_map[name]: the dict comprehension keeps the last position of a name
LastIndexOf(columns, name) ==
  (CHOOSE i \in 1..Len(columns) :
     columns[i] = name /\ \A j \in (i + 1)..Len(columns) : columns[j] # name) - 1

\* item[column_map['timestamp']] / 1000, for datetime.fromtimestamp
Seconds(cell) ==
  CASE cell.t = "num" -> IF cell.v.d = 0 THEN Raised ELSE Div(cell.v, Whole(1000))
    [] cell.t = "bool" -> Div(Float(cell), Whole(1000))
    [] OTHER -> Raised

\* "if field in column_map and len(item) > column_map[field]"
HasField(names, row, f) ==
  InList(FieldName[f], names) /\ Len(row) > LastIndexOf(names, FieldName[f])

\* item[column_map[field]]
CellOf(names, row, f) == row[LastIndexOf(names, FieldName[f]) + 1]

\* datetime.fromtimestamp(item[column_map['timestamp']] / 1000), on the quotient
DatetimeOf(seconds) == IF seconds = Raised THEN Raised ELSE JNum(seconds)

\* "float(value) if value is not None else None", on float's result
FloatCell(number) == IF number = Raised THEN Raised ELSE JNum(number)

FloatOrNone(value) == IF value = JNull THEN JNull ELSE FloatCell(Float(value))

\* the value stored under a key of kline_dict, or Raised
FieldValue(k, cell) ==
  CASE k = "timestamp" -> cell
    [] k = "datetime" -> DatetimeOf(Seconds(cell))
    [] OTHER -> FloatOrNone(cell)

\* the fields of a row that parse_kline_data converts
KlineFields(names, row) == {f \in DOMAIN FieldName : HasField(names, row, f)}

KlineKeys(present) == present \cup (IF "timestamp" \in present THEN {"datetime"} ELSE {})

KlineEntries(names, row, keys) ==
  [k \in keys |->
     FieldValue(k, CellOf(names, row, IF k = "datetime" THEN "timestamp" ELSE k))]

KlineDictOf(entries) ==
  IF \E k \in DOMAIN entries : entries[k] = Raised THEN Raised ELSE JDict(entries)

\* one pass of the for loop of parse_kline_data: the record of a row, or
\* Raised when a cell cannot be converted
KlineDict(names, item) ==
  IF item.t # "list" THEN Raised
  ELSE KlineDictOf(KlineEntries(names, item.items, KlineKeys(KlineFields(names, item.items))))

\* parsed_data after the loop, or Raised when a pass raised
ParsedData(parsed) ==
  IF \E i \in 1..Len(parsed) : parsed[i] = Raised THEN Raised ELSE JList(parsed)

\* "for item in items"
ParseItems(names, rows) == ParsedData([i \in 1..Len(rows) |-> KlineDict(names, rows[i])])

\* "if not columns or not items: return []"
ParseTable(columns, items) ==
  IF ~Truthy(columns) \/ ~Truthy(items) THEN JList(<<>>)
  ELSE IF columns.t # "list" \/ items.t # "list" THEN Raised
  ELSE ParseItems(NamesOf(columns.items), items.items)

\* data.get(...) raises AttributeError when data is no dict
ParseData(data) ==
  IF data.t # "dict" THEN Raised
  ELSE ParseTable(DictGet(data, "column", JList(<<>>)), DictGet(data, "item", JList(<<>>)))

\* parse_kline_data(raw_data): the list of records in the rows' order, or Raised
ParseKlineData(raw_data) ==
  IF ~Truthy(raw_data) \/ ~KeyIn("data", raw_data) THEN JList(<<>>)
  ELSE ParseData(raw_data.fields["data"])

\* "if not kline_data: raise"
KlineOrRaise(kline_data) ==
  IF kline_data = Raised THEN Raised
  ELSE IF ~Truthy(kline_data) THEN Raised
  ELSE kline_data

\* "if not raw_data: raise"
ParsedOrRaise(raw_data) ==
  IF ~Truthy(raw_data) THEN Raised ELSE KlineOrRaise(ParseKlineData(raw_data))

\* get_kline_data_from_xueqiu(symbol, period, count): the records, or Raised
GetKlineDataFromXueqiu(symbol, period, count, resp) ==
  [out |-> ParsedOrRaise(XueqiuGetKlineData(resp)),
   calls |-> <<KlineRequest(symbol, period, count)>>]

\* XueqiuMarketData.get_market_status(symbol) at the wall clock's hour
XueqiuGetMarketStatus(symbol, hour) ==
  [symbol |-> symbol,
   market_status |-> IF (21 <= hour /\ hour <= 23) \/ (0 <= hour /\ hour <= 4)
                     THEN "TRADING" ELSE "CLOSED",
   timestamp |-> hour * 3600000,
   current_time |-> hour]

(***************************************************************************)
(* The market router (market_data.py).                                     *)
(***************************************************************************)
LowerLetters == <<"a", "h", "k", "m", "p", "s", "u">>

UpperLetters == <<"A", "H", "K", "M", "P", "S", "U">>

\* str.upper(), on the letters market tags are drawn from
UpperChar(c) ==
  IF \E i \in 1..Len(LowerLetters) : LowerLetters[i] = c
  THEN UpperLetters[CHOOSE i \in 1..Len(LowerLetters) : LowerLetters[i] = c]
  ELSE c

Upper(text) == [i \in 1..Len(text) |-> UpperChar(text[i])]

PUMP == <<"P", "U", "M", "P">>

\* market == "PUMP": the comparison without upper()
IsExactlyPump(market) == market = PUMP

\* market.upper() == "PUMP"
IsPumpMarket(market) == Upper(market) = PUMP

CoinRequest(mint_address) == [endpoint |-> "pump/coins/{mint}", symbol |-> mint_address]

\* "return price" without the test "price > 0": whatever the source gave
AnyPrice(price) == price

\* "if price and price > 0: return price", else raise
PositivePrice(price) ==
  IF price = Raised THEN Raised
  ELSE IF NumTruthy(price) /\ GtZero(price) THEN price
  ELSE Raised

RouterPriceFromXueqiu(got) ==
  [out |-> PositivePrice(got.out),
   source |-> "get_last_price_from_xueqiu",
   calls |-> got.calls]

\* get_last_price(symbol, market): a price or Raised, the source consulted
\* and the requests sent
RouterGetLastPrice(symbol, market, pumpResp, quoteResp, klineResp) ==
  IF IsPumpMarket(market)
  THEN [out |-> PositivePrice(GetLastPriceFromPumpFun(symbol, pumpResp)),
        source |-> "get_last_price_from_pump_fun",
        calls |-> <<CoinRequest(symbol)>>]
  ELSE RouterPriceFromXueqiu(GetLastPriceFromXueqiu(symbol, quoteResp, klineResp))

\* "if data: return data", else raise
KlineDataOrRaise(data) ==
  IF data = Raised THEN Raised
  ELSE IF Truthy(data) THEN data
  ELSE Raised

RouterKlineFromXueqiu(got) ==
  [out |-> KlineDataOrRaise(got.out),
   source |-> "get_kline_data_from_xueqiu",
   calls |-> got.calls]

\* get_kline_data(symbol, market, period, count): the records or Raised
RouterGetKlineData(symbol, market, period, count, resp) ==
  IF IsPumpMarket(market)
  THEN [out |-> JList(<<>>), source |-> "none", calls |-> <<>>]
  ELSE RouterKlineFromXueqiu(GetKlineDataFromXueqiu(symbol, period, count, resp))

\* a status constant that says CLOSED instead of OPEN
ClosedPumpStatus ==
  [market_status |-> "CLOSED", market_name |-> "Pump.fun", trading_hours |-> "24/7"]

PumpMarketStatus ==
  [market_status |-> "OPEN", market_name |-> "Pump.fun", trading_hours |-> "24/7"]

\* get_market_status(symbol, market)
RouterGetMarketStatus(symbol, market, hour) ==
  IF IsPumpMarket(market)
  THEN [out |-> PumpMarketStatus, source |-> "none"]
  ELSE [out |-> XueqiuGetMarketStatus(symbol, hour),
        source |-> "xueqiu_client.get_market_status"]

(***************************************************************************)
(* The price route (pump_routes.py).                                       *)
(***************************************************************************)
\* a route that answers not-found when the router raises
NotFoundOnFailure(mint_address, price) ==
  IF price = Raised THEN [status |-> 404]
  ELSE [status |-> 200, success |-> TRUE,
        data |-> [mint_address |-> mint_address, price |-> price, market |-> PUMP]]

\* get_coin_price(mint_address), on what get_last_price(mint_address, "PUMP")
\* gave: 500 when it raised, 404 when "price <= 0" (the HTTPException passes
\* through "except HTTPException: raise"), else the body
CoinPriceAnswer(mint_address, price) ==
  IF price = Raised THEN [status |-> 500]
  ELSE IF LeZero(price) THEN [status |-> 404]
  ELSE [status |-> 200, success |-> TRUE,
        data |-> [mint_address |-> mint_address, price |-> price, market |-> PUMP]]

(***************************************************************************)
(* The search route (pump_routes.py).                                      *)
(***************************************************************************)
UpperAlphabet ==
  <<"A", "B", "C", "D", "E", "F", "G", "H", "I", "J", "K", "L", "M",
    "N", "O", "P", "Q", "R", "S", "T", "U", "V", "W", "X", "Y", "Z">>

LowerAlphabet ==
  <<"a", "b", "c", "d", "e", "f", "g", "h", "i", "j", "k", "l", "m",
    "n", "o", "p", "q", "r", "s", "t", "u", "v", "w", "x", "y", "z">>

LowerChar(c) ==
  IF \E i \in 1..26 : UpperAlphabet[i] = c
  THEN LowerAlphabet[CHOOSE i \in 1..26 : UpperAlphabet[i] = c]
  ELSE c

\* str.lower()
Lower(text) == [i \in 1..Len(text) |-> LowerChar(text[i])]

\* coin.get(key, ''): the value under the key, '' when the key is missing
GetOrEmpty(coin, key) == DictGet(coin, key, JStr(<<>>))

\* coin.get(key, '').lower() raises AttributeError for a coin that is no
\* dict and for a value that is no text
LowerRaises(coin, key) == coin.t # "dict" \/ GetOrEmpty(coin, key).t # "str"

\* the three lines that read name, symbol and description
CoinRaises(coin) ==
  LowerRaises(coin, "name") \/ LowerRaises(coin, "symbol") \/ LowerRaises(coin, "description")

\* query_lower in coin.get(key, '').lower()
FieldMatches(coin, key, query_lower) ==
  Contains(Lower(GetOrEmpty(coin, key).s), query_lower)

\* the condition of the if, for a coin whose three fields are texts
CoinMatches(coin, query_lower) ==
  \/ FieldMatches(coin, "name", query_lower)
  \/ FieldMatches(coin, "symbol", query_lower)
  \/ FieldMatches(coin, "description", query_lower)

RECURSIVE SearchFrom(_, _, _, _)
RECURSIVE SearchKept(_, _, _, _)
\* after the body of the loop: break once limit coins are kept (a coin is
\* appended before the test, and limit is at least 1)
SearchKept(coins, query_lower, limit, kept) ==
  IF Len(kept) >= limit THEN JList(kept)
  ELSE SearchFrom(Tail(coins), query_lower, limit, kept)

\* "for coin in all_coins", from the coins not yet visited and the coins kept
SearchFrom(coins, query_lower, limit, filtered_coins) ==
  IF coins = <<>> THEN JList(filtered_coins)
  ELSE IF CoinRaises(Head(coins)) THEN Raised
  ELSE SearchKept(coins, query_lower, limit,
                  IF CoinMatches(Head(coins), query_lower)
                  THEN Append(filtered_coins, Head(coins))
                  ELSE filtered_coins)

\* the loop over what get_coins_list returned: a value that cannot be
\* iterated raises TypeError, an empty text or dict has nothing to visit and
\* the members of a non-empty one have no get
FilterCoins(all_coins, query_lower, limit) ==
  IF all_coins.t = "list" THEN SearchFrom(all_coins.items, query_lower, limit, <<>>)
  ELSE IF all_coins.t \in {"str", "dict"} /\ ~Truthy(all_coins) THEN JList(<<>>)
  ELSE Raised

\* the answer of the route: the body, or the HTTPException the except raises
SearchAnswer(filtered_coins, q) ==
  IF filtered_coins = Raised THEN [status |-> 500]
  ELSE [status |-> 200, success |-> TRUE, data |-> filtered_coins,
        count |-> Len(filtered_coins.items), query |-> q]

\* the limit search_coins asks get_coins_list for
SearchListLimit == 200

\* search_coins(q, limit), on the upstream's answer to get_coins_list
SearchCoinsRoute(q, limit, resp) ==
  SearchAnswer(FilterCoins(GetCoinsList(SearchListLimit, resp), Lower(q), limit), q)

(***************************************************************************)
(* The inputs the operations are run on: symbols, market tags and the      *)
(* answers of the two upstreams.                                           *)
(***************************************************************************)
OtherMint == <<"S", "o", "1", "a", "N", "a", "M", "i", "n", "t">>

MSFT == <<"M", "S", "F", "T">>

Mints == {Mint1, Mint2, Mint3, OtherMint}

EquitySymbols == {MSFT, Mint1}

PumpMarkets == {PUMP, <<"p", "u", "m", "p">>, <<"P", "u", "m", "p">>}

OtherMarkets == {<<"U", "S">>, <<"H", "K">>, <<"u", "s">>, <<"P", "U", "M", "P", "S">>, <<>>}

Markets == PumpMarkets \cup OtherMarkets

\* a key the record does not hold
Absent == [t |-> "absent"]

\* the dict holding the given values, without the keys whose value is Absent
DictOf(fields) == JDict([k \in {f \in DOMAIN fields : fields[f] # Absent} |-> fields[k]])

CapChoices ==
  {Absent, JNull, JStr(<<"x">>), JNum(NaN), JNum(Zero), JNum(Whole(100000)),
   JNum(Whole(250000)), JNum(Whole(-100000))}

SupplyChoices ==
  {Absent, JNull, JNum(NaN), JNum(Zero), JNum(Whole(-1000)), JNum(Whole(1000000000)),
   JNum(Whole(4))}

CoinBodies ==
  {BadJson, JNull, JList(<<>>), JNum(Whole(5)), JDict(NoFields)}
    \cup {DictOf([name |-> JStr(TestCoinName), usd_market_cap |-> c, total_supply |-> t]) :
            c \in CapChoices, t \in SupplyChoices}

FailureStatuses == {404, 500, 529, 530}

CoinResponses ==
  {TransportError} \cup {Http(c, JNull) : c \in FailureStatuses}
    \cup {Http(200, b) : b \in CoinBodies}

\* answers that carry a body under a status that is not 200
ErrorBody == JDict([error |-> JStr(<<"x">>)])

BodyStatuses == {201, 204, 404, 530}

BodyResponses == {Http(c, b) : c \in BodyStatuses, b \in {ErrorBody, JList(<<ErrorBody>>)}}

\* a trade of the upstream
Trade == JDict([signature |-> JStr(<<"s">>), sol_amount |-> JNum(Whole(5)), is_buy |-> JBool(TRUE)])

TradeBodies == {BadJson, JNull, JList(<<>>), JList(<<Trade>>), JList(<<Trade, Trade>>), ErrorBody}

TradeResponses ==
  {TransportError} \cup {Http(c, JNull) : c \in FailureStatuses} \cup BodyResponses
    \cup {Http(200, b) : b \in TradeBodies}

\* the coin endpoint answering with a record of the mock table
MockCoinResponses == {Http(200, MockCoins[i]) : i \in 1..Len(MockCoins)}

\* coins an upstream list may hold: a name, symbol or description may be
\* missing or null
UpstreamCoins ==
  {DictOf([mint |-> JStr(OtherMint), name |-> n, symbol |-> JStr(MoonDogeSymbol), description |-> d]) :
     n \in {JStr(MoonDogeName), JNull}, d \in {JStr(PepeCoinDescription), Absent}}

CoinLists ==
  {<<>>} \cup {<<c>> : c \in UpstreamCoins}
    \cup {<<c, TestCoin>> : c \in UpstreamCoins}

ListBodies ==
  {BadJson, JNull, JDict(NoFields), JDict([data |-> JNull]),
   JDict([error |-> JStr(<<"x">>)]),
   JDict([data |-> JList(<<>>), coins |-> JList(<<TestCoin>>)])}
    \cup {JList(l) : l \in CoinLists}
    \cup {JDict([data |-> JList(l)]) : l \in CoinLists}
    \cup {JDict([coins |-> JList(l)]) : l \in CoinLists}

ListResponses ==
  {TransportError} \cup {Http(c, JNull) : c \in FailureStatuses \cup {531}}
    \cup {Http(200, b) : b \in ListBodies}

\* what a quote may give as its current price
CurrentChoices ==
  {Absent, JNull, JNum(Frac(301, 2)), JNum(Zero), JNum(Whole(-3)), JNum(NaN),
   JStr(<<"1", "5", "0", ".", "5">>), JStr(<<"a", "b", "c">>), JStr(<<"0">>), JBool(TRUE), JList(<<>>)}

QuoteBodies ==
  {BadJson, JNull, JList(<<>>), JDict(NoFields), JDict([data |-> JNull]),
   JDict([data |-> JDict(NoFields)]), JDict([data |-> JDict([quote |-> JNull])])}
    \cup {JDict([data |-> JDict([quote |-> DictOf([symbol |-> JStr(MSFT), current |-> c])])]) :
            c \in CurrentChoices}

QuoteResponses ==
  {TransportError, Http(400, JNull), Http(500, JNull)}
    \cup {Http(200, b) : b \in QuoteBodies}

\* candle tables: column names and rows of cells
Col(name) == JStr(FieldName[name])

ColumnChoices ==
  {Absent, JNull, JList(<<>>),
   JList(<<Col("timestamp"), Col("close")>>),
   JList(<<Col("close")>>),
   JList(<<Col("timestamp"), Col("volume")>>),
   JList(<<Col("timestamp"), Col("open"), Col("close")>>)}

Stamp == JNum(Whole(1700000))

Price42 == JNum(Frac(85, 2))

Rows ==
  {JList(<<Stamp, Price42>>), JList(<<Stamp>>), JList(<<Stamp, JNull>>),
   JList(<<Stamp, JNum(Zero)>>), JList(<<Stamp, JStr(<<"a", "b", "c">>)>>),
   JList(<<JNull, Price42>>), JList(<<Stamp, JNum(Whole(7)), JStr(<<"4", "2", ".", "5">>)>>),
   JNull}

ItemChoices ==
  {Absent, JNull, JList(<<>>)} \cup {JList(<<r>>) : r \in Rows}
    \cup {JList(<<JList(<<Stamp, Price42>>), r>>) :
            r \in {JList(<<Stamp, JNum(Zero)>>), JList(<<Stamp>>), JNull}}

ErrorCodeChoices == {Absent, JNum(Zero), JNum(Whole(400016))}

\* a well-formed table and one without rows, for the answers that also
\* carry an error code
GoodTable ==
  JDict([column |-> JList(<<Col("timestamp"), Col("close")>>),
         item |-> JList(<<JList(<<Stamp, Price42>>)>>)])

EmptyTable ==
  JDict([column |-> JList(<<Col("timestamp"), Col("close")>>), item |-> JList(<<>>)])

KlineBodies ==
  {BadJson, JNull, JList(<<>>)}
    \cup {DictOf([error_code |-> e, data |-> d]) :
            e \in ErrorCodeChoices,
            d \in {Absent, JNull, JDict(NoFields), GoodTable, EmptyTable}}
    \cup {JDict([data |-> DictOf([column |-> c, item |-> it])]) :
            c \in ColumnChoices, it \in ItemChoices}

KlineResponses ==
  {TransportError, Http(400, JNull)} \cup {Http(200, b) : b \in KlineBodies}

\* period and count of a candle request
CandleArgs ==
  {[period |-> Period1d, count |-> 100], [period |-> Period1m, count |-> 1],
   [period |-> Day, count |-> -5], [period |-> <<"5", "m">>, count |-> 100]}

\* search texts: 1 to 100 characters in the route; these match one, two,
\* all or none of the coins
Queries ==
  {<<"m", "o", "o", "n">>, <<"M", "O", "O", "N">>, <<"c", "o", "i", "n">>,
   <<"E">>, <<"p", "e", "p", "e">>, <<"z", "z">>}

Hours == 0..23

(***************************************************************************)
(* State.                                                                  *)
(***************************************************************************)
VARIABLES
  pump_fun_cookie_string,   \* module global _pump_fun_cookie_string
  xueqiu_cookie_string,     \* module global _xueqiu_cookie_string
  pump_session_cookies,     \* pump_fun_client.session.cookies
  xueqiu_session_cookies,   \* xueqiu_client.session.cookies
  last,                     \* the last operation: its name, inputs, outcome
  last_set                  \* history: the text last given to each source's set
                            \* (equity: to either setter of the equity global)

vars ==
  <<pump_fun_cookie_string, xueqiu_cookie_string, pump_session_cookies,
    xueqiu_session_cookies, last, last_set>>

cookieVars ==
  <<pump_fun_cookie_string, xueqiu_cookie_string, pump_session_cookies,
    xueqiu_session_cookies, last_set>>

(***************************************************************************)
(* Cookie string parsing (both clients).                                   *)
(***************************************************************************)
\* the for-loop bodies: entries without '=' are skipped, the others set
\* cookies[key.strip()] = value.strip(); the per-line loop strips the line first
RECURSIVE AddCookies(_, _, _)
AddCookies(cookies, entries, stripLine) ==
  IF entries = <<>> THEN cookies
  ELSE LET cookie == IF stripLine THEN Strip(Head(entries)) ELSE Head(entries)
           kv == SplitFirstEq(cookie)
       IN  IF Contains(cookie, <<EqualsSign>>)
           THEN AddCookies(DictSet(cookies, Strip(kv.key), Strip(kv.value)),
                           Tail(entries), stripLine)
           ELSE AddCookies(cookies, Tail(entries), stripLine)

\* the three formats, in the order of the if / elif / else
ParseFormats(cookie_string) ==
  IF Contains(cookie_string, <<Semicolon, Space>>)
  THEN AddCookies(EmptyDict, Split(cookie_string, <<Semicolon, Space>>), FALSE)
  ELSE IF Contains(cookie_string, <<Newline>>)
  THEN AddCookies(EmptyDict, Split(Strip(cookie_string), <<Newline>>), TRUE)
  ELSE AddCookies(EmptyDict, <<cookie_string>>, FALSE)

\* PumpFunMarketData._parse_cookie_string: None raises TypeError inside the
\* try, which is caught and leaves the empty dict
PumpParseCookieString(cookie_string) ==
  IF cookie_string = None THEN EmptyDict ELSE ParseFormats(cookie_string)

\* XueqiuMarketData._parse_cookie_string: returns early on None, "" and
\* all-whitespace text
XueqiuParseCookieString(cookie_string) ==
  IF cookie_string = None \/ cookie_string = <<>> \/ Strip(cookie_string) = <<>>
  THEN EmptyDict
  ELSE ParseFormats(cookie_string)

\* the cookie texts of the documented examples
ExampleA1B2 == <<"a", "=", "1", ";", " ", "b", "=", "2">>
ExampleA1NlB2 == <<"a", "=", "1", "\n", "b", "=", "2">>
ExampleA1 == <<"a", "=", "1">>
ExampleNoEq == <<"n", "o", "e", "q", "u", "a", "l", "s", "s", "i", "g", "n">>

ParserInputs ==
  TextsUpTo(CookieAlphabet, MaxLen)
    \cup {ExampleA1B2, ExampleA1NlB2, ExampleA1, ExampleNoEq, <<>>, None}

(***************************************************************************)
(* The parser on its own: Init draws the text, the action parses it with   *)
(* both clients.                                                           *)
(***************************************************************************)
NoCalls == <<>>

InitCookies ==
  /\ pump_fun_cookie_string = None
  /\ xueqiu_cookie_string = None
  /\ pump_session_cookies = EmptyDict
  /\ xueqiu_session_cookies = EmptyDict
  /\ last_set = [pump |-> None, xueqiu |-> None, equity |-> None]

InitParse ==
  /\ InitCookies
  /\ \E s \in ParserInputs :
       last = [op |-> "input", arg |-> s, out |-> EmptyDict, out2 |-> EmptyDict]

ParseCookieString ==
  /\ last.op = "input"
  /\ last' = [op |-> "_parse_cookie_string", arg |-> last.arg,
              out |-> PumpParseCookieString(last.arg),
              out2 |-> XueqiuParseCookieString(last.arg)]
  /\ UNCHANGED cookieVars

NextParse == ParseCookieString

SpecParse == InitParse /\ [][NextParse]_vars

(***************************************************************************)
(* The router's and the clients' operations as actions.  An upstream       *)
(* answer is drawn where the code sends the request.  The operations keep  *)
(* no state between calls, so each call starts from Idle.                  *)
(***************************************************************************)
Idle == [op |-> "idle"]

Init ==
  /\ InitCookies
  /\ last = Idle

\* get_last_price(symbol, market)
GetLastPrice ==
  /\ last = Idle
  /\ \E symbol \in Mints \cup EquitySymbols, market \in Markets :
       \/ /\ IsPumpMarket(market)
          /\ \E coin \in CoinResponses :
               last' = [op |-> "get_last_price", symbol |-> symbol, market |-> market,
                        upstream |-> <<coin>>,
                        res |-> RouterGetLastPrice(symbol, market, coin, TransportError,
                                                   TransportError)]
       \/ /\ ~IsPumpMarket(market)
          /\ symbol \in EquitySymbols
          /\ \E quote \in QuoteResponses :
               /\ QuotePrice(quote) # NoQuotePrice
               /\ last' = [op |-> "get_last_price", symbol |-> symbol, market |-> market,
                           upstream |-> <<quote>>,
                           res |-> RouterGetLastPrice(symbol, market, TransportError, quote,
                                                      TransportError)]
       \/ /\ ~IsPumpMarket(market)
          /\ symbol \in EquitySymbols
          /\ \E quote \in QuoteResponses, kline \in KlineResponses :
               /\ QuotePrice(quote) = NoQuotePrice
               /\ last' = [op |-> "get_last_price", symbol |-> symbol, market |-> market,
                           upstream |-> <<quote, kline>>,
                           res |-> RouterGetLastPrice(symbol, market, TransportError, quote,
                                                      kline)]
  /\ UNCHANGED cookieVars

\* get_kline_data(symbol, market, period, count)
GetKlineData ==
  /\ last = Idle
  /\ \E symbol \in EquitySymbols, market \in Markets, args \in CandleArgs :
       \/ /\ IsPumpMarket(market)
          /\ last' = [op |-> "get_kline_data", symbol |-> symbol, market |-> market,
                      period |-> args.period, count |-> args.count,
                      upstream |-> <<>>,
                      res |-> RouterGetKlineData(symbol, market, args.period, args.count,
                                                 TransportError)]
       \/ /\ ~IsPumpMarket(market)
          /\ \E kline \in KlineResponses :
               last' = [op |-> "get_kline_data", symbol |-> symbol, market |-> market,
                        period |-> args.period, count |-> args.count,
                        upstream |-> <<kline>>,
                        res |-> RouterGetKlineData(symbol, market, args.period,
                                                   args.count, kline)]
  /\ UNCHANGED cookieVars

\* get_market_status(symbol, market), at some hour of the wall clock
GetMarketStatus ==
  /\ last = Idle
  /\ \E symbol \in EquitySymbols, market \in Markets, hour \in Hours :
       last' = [op |-> "get_market_status", symbol |-> symbol, market |-> market,
                hour |-> hour, res |-> RouterGetMarketStatus(symbol, market, hour)]
  /\ UNCHANGED cookieVars

\* pump_fun_client.get_coins_list(limit=limit)
PumpGetCoinsList ==
  /\ last = Idle
  /\ \E limit \in 1..MaxLimit, resp \in ListResponses :
       last' = [op |-> "get_coins_list", limit |-> limit, upstream |-> <<resp>>,
                calls |-> PumpCalls(CoinsListRequest(limit), resp),
                out |-> GetCoinsList(limit, resp)]
  /\ UNCHANGED cookieVars

\* get_last_price_from_pump_fun(mint_address)
PumpDerivePrice ==
  /\ last = Idle
  /\ \E mint \in Mints, coin \in CoinResponses \cup MockCoinResponses :
       last' = [op |-> "get_last_price_from_pump_fun", symbol |-> mint,
                upstream |-> <<coin>>, out |-> GetLastPriceFromPumpFun(mint, coin)]
  /\ UNCHANGED cookieVars

\* get_coin_data(mint_address)
PumpGetCoinData ==
  /\ last = Idle
  /\ \E mint \in Mints, resp \in CoinResponses \cup BodyResponses :
       last' = [op |-> "get_coin_data", symbol |-> mint, upstream |-> <<resp>>,
                calls |-> PumpCalls(CoinRequest(mint), resp),
                out |-> GetCoinData(resp)]
  /\ UNCHANGED cookieVars

\* get_coin_trades(mint_address, limit, offset)
PumpGetCoinTrades ==
  /\ last = Idle
  /\ \E mint \in Mints, limit \in 1..MaxLimit, resp \in TradeResponses :
       last' = [op |-> "get_coin_trades", symbol |-> mint, limit |-> limit,
                upstream |-> <<resp>>,
                calls |-> PumpCalls(TradesRequest(mint, limit), resp),
                out |-> GetCoinTrades(resp)]
  /\ UNCHANGED cookieVars

\* get_last_price_from_xueqiu(symbol): xueqiu_client.get_latest_price, then
\* the check of its result; the candle answer is consumed only when the
\* candle is asked for
XueqiuLastPrice ==
  /\ last = Idle
  /\ \E symbol \in EquitySymbols, quote \in QuoteResponses, kline \in KlineResponses :
       \E got \in {XueqiuGetLatestPrice(symbol, quote, kline)} :
         last' = [op |-> "get_last_price_from_xueqiu", symbol |-> symbol,
                  upstream |-> IF Len(got.calls) = 1 THEN <<quote>> ELSE <<quote, kline>>,
                  latest |-> got,
                  res |-> PriceOrRaise(got)]
  /\ UNCHANGED cookieVars

\* get_kline_data_from_xueqiu(symbol, period, count), with what
\* xueqiu_client.get_kline_data gave it
XueqiuCandles ==
  /\ last = Idle
  /\ \E symbol \in EquitySymbols, args \in CandleArgs, kline \in KlineResponses :
       last' = [op |-> "get_kline_data_from_xueqiu", symbol |-> symbol,
                period |-> args.period, count |-> args.count,
                upstream |-> <<kline>>,
                raw |-> XueqiuGetKlineData(kline),
                res |-> GetKlineDataFromXueqiu(symbol, args.period, args.count, kline)]
  /\ UNCHANGED cookieVars

\* xueqiu_client.parse_kline_data(raw_data), on any decoded body
ParseKline ==
  /\ last = Idle
  /\ \E raw_data \in KlineBodies \ {BadJson} :
       last' = [op |-> "parse_kline_data", raw_data |-> raw_data,
                out |-> ParseKlineData(raw_data)]
  /\ UNCHANGED cookieVars

\* GET /pump/coins/{mint_address}/price
GetCoinPrice ==
  /\ last = Idle
  /\ \E mint \in Mints, coin \in CoinResponses \cup MockCoinResponses :
       \E got \in {RouterGetLastPrice(mint, PUMP, coin, TransportError, TransportError)} :
         last' = [op |-> "get_coin_price", symbol |-> mint, upstream |-> <<coin>>,
                  derived |-> GetLastPriceFromPumpFun(mint, coin),
                  price |-> got.out,
                  res |-> CoinPriceAnswer(mint, got.out)]
  /\ UNCHANGED cookieVars

\* GET /pump/search?q=...&limit=...
SearchCoins ==
  /\ last = Idle
  /\ \E q \in Queries, limit \in 1..MaxLimit, resp \in ListResponses :
       last' = [op |-> "search_coins", q |-> q, limit |-> limit, upstream |-> <<resp>>,
                all_coins |-> GetCoinsList(SearchListLimit, resp),
                res |-> SearchCoinsRoute(q, limit, resp)]
  /\ UNCHANGED cookieVars

\* the caller takes the outcome; the next call starts from there (calls are
\* sequential: one request path per call)
Return ==
  /\ last # Idle
  /\ last' = Idle
  /\ UNCHANGED cookieVars

Next ==
  \/ GetLastPrice
  \/ GetKlineData
  \/ GetMarketStatus
  \/ PumpGetCoinsList
  \/ PumpDerivePrice
  \/ PumpGetCoinData
  \/ PumpGetCoinTrades
  \/ XueqiuLastPrice
  \/ XueqiuCandles
  \/ ParseKline
  \/ SearchCoins
  \/ GetCoinPrice
  \/ Return

Spec == Init /\ [][Next]_vars

(***************************************************************************)
(* The cookie stores and the clients' sessions.                            *)
(***************************************************************************)
\* PumpFunMarketData.update_cookies: the session's jar after the call; a
\* text that parses to nothing only logs a warning
PumpUpdateCookies(jar, cookie_string) ==
  LET new_cookies == PumpParseCookieString(cookie_string)
  IN  IF DOMAIN new_cookies # {} THEN DictUpdate(jar, new_cookies) ELSE jar

\* set_xueqiu_cookie: the global after the call
XueqiuStoredCookie(cookie_string) ==
  IF cookie_string # None /\ cookie_string # <<>> THEN Strip(cookie_string) ELSE None

\* XueqiuMarketData._setup_session: the session's jar after the call, on the
\* session the client already has
XueqiuSetupSession(jar, global_cookie) ==
  DictUpdate(jar, XueqiuParseCookieString(global_cookie))

\* texts given to the set operations
ExampleTrailing == <<"b", "=", "2", ";", " ">>
ExamplePadded == <<" ", "a", "=", "2", " ">>

CookieTexts ==
  {<<>>, ExampleNoEq, ExampleA1, ExampleA1B2, ExampleTrailing, ExamplePadded}

\* set_pump_fun_cookie(cookie_string)
SetPumpFunCookie(cookie_string) ==
  /\ pump_fun_cookie_string' = cookie_string
  /\ pump_session_cookies' = PumpUpdateCookies(pump_session_cookies, cookie_string)
  /\ last' = [op |-> "set_pump_fun_cookie", arg |-> cookie_string]
  /\ last_set' = [last_set EXCEPT !.pump = cookie_string]
  /\ UNCHANGED <<xueqiu_cookie_string, xueqiu_session_cookies>>

\* set_xueqiu_cookie(cookie_string): the global alone
SetXueqiuCookie(cookie_string) ==
  /\ xueqiu_cookie_string' = XueqiuStoredCookie(cookie_string)
  /\ last' = [op |-> "set_xueqiu_cookie", arg |-> cookie_string]
  /\ last_set' = [last_set EXCEPT !.equity = cookie_string]
  /\ UNCHANGED <<pump_fun_cookie_string, pump_session_cookies, xueqiu_session_cookies>>

\* update_xueqiu_cookie(cookie_string): the global, then the session rebuilt
UpdateXueqiuCookie(cookie_string) ==
  /\ xueqiu_cookie_string' = XueqiuStoredCookie(cookie_string)
  /\ xueqiu_session_cookies' =
       XueqiuSetupSession(xueqiu_session_cookies, XueqiuStoredCookie(cookie_string))
  /\ last' = [op |-> "update_xueqiu_cookie", arg |-> cookie_string]
  /\ last_set' = [last_set EXCEPT !.xueqiu = cookie_string, !.equity = cookie_string]
  /\ UNCHANGED <<pump_fun_cookie_string, pump_session_cookies>>

\* get_xueqiu_cookie()
GetXueqiuCookie ==
  /\ last' = [op |-> "get_xueqiu_cookie", out |-> xueqiu_cookie_string]
  /\ UNCHANGED cookieVars

\* what get_system_config("pump_fun_cookie") of the configuration repository
\* gives: no row, a row with a value, or a failure of the import or the query
NoConfig == [t |-> "null"]

ConfigRow(value) == [t |-> "row", value |-> value]

ConfigRows == {Raised, NoConfig, ConfigRow(ExampleA1), ConfigRow(<<"z", "=", "9">>)}

\* get_pump_fun_cookie(): "config.value if config else None", None on any
\* exception; the global of set_pump_fun_cookie is not read
PumpFunCookieOf(config) ==
  IF config = Raised THEN None
  ELSE IF config = NoConfig THEN None
  ELSE config.value

\* get_pump_fun_cookie()
GetPumpFunCookie ==
  /\ \E config \in ConfigRows :
       last' = [op |-> "get_pump_fun_cookie", config |-> config,
                out |-> PumpFunCookieOf(config)]
  /\ UNCHANGED cookieVars

\* self.session.get(...) of the coin-market client: the request carries the
\* session's cookies
PumpRequest ==
  /\ last' = [op |-> "request", source |-> "pump", cookies |-> pump_session_cookies]
  /\ UNCHANGED cookieVars

\* self.session.get(...) of the equity client
XueqiuRequest ==
  /\ last' = [op |-> "request", source |-> "xueqiu", cookies |-> xueqiu_session_cookies]
  /\ UNCHANGED cookieVars

InitCookieStore ==
  /\ InitCookies
  /\ last = [op |-> "import"]

NextCookies ==
  \/ \E s \in CookieTexts : SetPumpFunCookie(s)
  \/ \E s \in CookieTexts : SetXueqiuCookie(s)
  \/ \E s \in CookieTexts : UpdateXueqiuCookie(s)
  \/ GetXueqiuCookie
  \/ GetPumpFunCookie
  \/ PumpRequest
  \/ XueqiuRequest

SpecCookies == InitCookieStore /\ [][NextCookies]_vars

(***************************************************************************)
(* Claims about the router and the coin-market client, checked under Spec  *)
(* on the outcome of the last operation.                                   *)
(***************************************************************************)
\* the tag is "PUMP" up to the case of its letters, letter by letter
EqualsPumpIgnoringCase(market) ==
  /\ Len(market) = 4
  /\ market[1] \in {"P", "p"}
  /\ market[2] \in {"U", "u"}
  /\ market[3] \in {"M", "m"}
  /\ market[4] \in {"P", "p"}

\* out is what the router may give for what its source gave: the source's
\* price when that is above 0, and a raise when the source failed, gave
\* nothing or gave a price that is not above 0
C1_Passes(out, got) ==
  IF got = Raised \/ got = JNull THEN out = Raised
  ELSE IF GtZero(got) THEN out = got
  ELSE out = Raised

\* the answer to the candle request of get_latest_price, when one was sent
C1_KlineAnswer == IF Len(last.upstream) > 1 THEN last.upstream[2] ELSE TransportError

\* C1: for every symbol, market tag and upstream outcome, get_last_price of
\* the router returns a price above 0 or raises, never a value <= 0; it
\* consults only the coin-market price derivation when the tag is "PUMP"
\* ignoring case and only the equity client's latest price for any other
\* tag, and raises when that source fails or gives a price <= 0.
C1_PositivePriceOrRaises ==
  last.op = "get_last_price" =>
    /\ last.res.out # Raised => GtZero(last.res.out)
    /\ IF EqualsPumpIgnoringCase(last.market)
       THEN /\ last.res.source = "get_last_price_from_pump_fun"
            /\ last.res.calls = <<CoinRequest(last.symbol)>>
            /\ C1_Passes(last.res.out,
                         GetLastPriceFromPumpFun(last.symbol, last.upstream[1]))
       ELSE /\ last.res.source = "get_last_price_from_xueqiu"
            /\ \A i \in 1..Len(last.res.calls) :
                 last.res.calls[i].endpoint \in {"xueqiu/quote", "xueqiu/kline"}
            /\ C1_Passes(last.res.out,
                         XueqiuGetLatestPrice(last.symbol, last.upstream[1],
                                              C1_KlineAnswer).out)

\* a lower-case tag had the coin-market derivation give 0.0, and the router raised
C1_Witness ==
  /\ last.op = "get_last_price"
  /\ last.market = <<"p", "u", "m", "p">>
  /\ GetLastPriceFromPumpFun(last.symbol, last.upstream[1]) = Zero
  /\ last.res.out = Raised

\* C2: for every tag that is "PUMP" ignoring case, and every symbol, period
\* and count, get_kline_data of the router returns the empty list, does not
\* raise and sends no upstream request.
C2_PumpCandlesEmpty ==
  last.op = "get_kline_data" /\ EqualsPumpIgnoringCase(last.market) =>
    /\ last.res.out = JList(<<>>)
    /\ last.res.calls = <<>>
    /\ last.res.source = "none"

\* candles were asked for under the tag "Pump"
C2_Witness ==
  /\ last.op = "get_kline_data"
  /\ last.market = <<"P", "u", "m", "p">>
  /\ last.res.out = JList(<<>>)

\* the constant of the coin market, written out
C3_Constant ==
  [market_status |-> "OPEN", market_name |-> "Pump.fun", trading_hours |-> "24/7"]

\* C3: get_market_status of the router returns the fixed constant (OPEN,
\* 24/7) exactly when the tag is "PUMP" ignoring case; for every other tag
\* it returns what the equity client's get_market_status gives, which is
\* never the constant.
C3_ConstantIffPump ==
  last.op = "get_market_status" =>
    /\ last.res.out = C3_Constant <=> EqualsPumpIgnoringCase(last.market)
    /\ ~EqualsPumpIgnoringCase(last.market) =>
         /\ last.res.source = "xueqiu_client.get_market_status"
         /\ last.res.out = XueqiuGetMarketStatus(last.symbol, last.hour)
         /\ last.res.out.symbol = last.symbol
         /\ last.res.out.market_status \in {"TRADING", "CLOSED"}

\* the status was asked under "pump" and the constant came back
C3_Witness ==
  /\ last.op = "get_market_status"
  /\ last.market = <<"p", "u", "m", "p">>
  /\ last.res.out = C3_Constant

\* the name of a coin record
C4_NameOf(coin) == coin.fields["name"].s

\* C4: when the upstream answers get_coins_list with status 530, the result
\* is the first min(limit, 3) records of the mock set TestCoin, MoonDoge,
\* PepeCoin in that order; with limit 2 it is exactly the first two.
C4_MockCoinsOn530 ==
  (/\ last.op = "get_coins_list"
   /\ last.upstream[1] # TransportError
   /\ last.upstream[1].status = 530) =>
    /\ last.out.t = "list"
    /\ Len(last.out.items) = (IF last.limit <= 3 THEN last.limit ELSE 3)
    /\ \A i \in 1..Len(last.out.items) :
         /\ last.out.items[i] = <<TestCoin, MoonDoge, PepeCoin>>[i]
         /\ C4_NameOf(last.out.items[i])
              = <<TestCoinName, MoonDogeName, PepeCoinName>>[i]
    /\ last.limit = 2 => last.out = JList(<<TestCoin, MoonDoge>>)

\* a 530 was answered for limit 2 with TestCoin and MoonDoge
C4_Witness ==
  /\ last.op = "get_coins_list"
  /\ last.limit = 2
  /\ last.upstream[1] = Http(530, JNull)
  /\ last.out = JList(<<TestCoin, MoonDoge>>)

\* out is a non-empty prefix of the mock set
C5_IsSynthetic(out) ==
  /\ out.t = "list"
  /\ out.items # <<>>
  /\ Len(out.items) <= 3
  /\ \A i \in 1..Len(out.items) : out.items[i] = <<TestCoin, MoonDoge, PepeCoin>>[i]

\* the list a decoded 200 body holds: the body itself, or what is under
\* "data", or else under "coins"
C5_ListOf(body) ==
  IF body.t = "list" THEN body
  ELSE IF body.t = "dict" /\ "data" \in DOMAIN body.fields THEN body.fields["data"]
  ELSE IF body.t = "dict" /\ "coins" \in DOMAIN body.fields THEN body.fields["coins"]
  ELSE JNull

\* C5: get_coins_list gives the mock set only when the upstream's status is
\* exactly 530: for every other status that is not 200 and for every
\* transport failure it returns the empty list without raising, and for a
\* 200 whose coin list is empty it returns the empty list, never the mock set.
C5_MockOnlyOn530 ==
  last.op = "get_coins_list" =>
    /\ last.out # Raised
    /\ last.upstream[1] = TransportError => last.out = JList(<<>>)
    /\ (last.upstream[1] # TransportError /\ last.upstream[1].status \notin {200, 530})
         => last.out = JList(<<>>)
    /\ (/\ last.upstream[1] # TransportError
        /\ last.upstream[1].status = 200
        /\ last.upstream[1].body # BadJson
        /\ C5_ListOf(last.upstream[1].body) = JList(<<>>))
         => last.out = JList(<<>>)
    /\ C5_IsSynthetic(last.out)
         => last.upstream[1] # TransportError /\ last.upstream[1].status = 530

\* a 500 was answered with the empty list
C5_Witness ==
  /\ last.op = "get_coins_list"
  /\ last.upstream[1] = Http(500, JNull)
  /\ last.out = JList(<<>>)

\* the coin was fetched: a 200 whose body decodes to a record
C6_Fetched(resp) ==
  /\ resp # TransportError
  /\ resp.status = 200
  /\ resp.body # BadJson
  /\ resp.body.t = "dict"

\* q is a / b, by cross-multiplication (NaN for a NaN operand)
C6_IsQuotient(q, a, b) ==
  IF a.d = 0 \/ b.d = 0 THEN q.d = 0
  ELSE q.d # 0 /\ q.n * a.d * b.n = a.n * b.d * q.d

\* total_supply of a fetched record, a billion when the record has none
C6_SupplyOf(coin) ==
  IF "total_supply" \in DOMAIN coin.fields THEN coin.fields["total_supply"]
  ELSE JNum(Whole(1000000000))

\* C6: get_last_price_from_pump_fun returns usd_market_cap / total_supply
\* whenever the coin is fetched with a (numeric) usd_market_cap and a
\* total_supply above 0, the supply being 1,000,000,000 when the record has
\* none; for a cap of 100000 and a supply of 1000000000 it returns 0.0001.
C6_PriceIsCapOverSupply ==
  (/\ last.op = "get_last_price_from_pump_fun"
   /\ C6_Fetched(last.upstream[1])
   /\ "usd_market_cap" \in DOMAIN last.upstream[1].body.fields
   /\ last.upstream[1].body.fields["usd_market_cap"].t = "num"
   /\ C6_SupplyOf(last.upstream[1].body).t = "num"
   /\ GtZero(C6_SupplyOf(last.upstream[1].body).v)) =>
    /\ C6_IsQuotient(last.out,
                     last.upstream[1].body.fields["usd_market_cap"].v,
                     C6_SupplyOf(last.upstream[1].body).v)
    /\ (/\ last.upstream[1].body.fields["usd_market_cap"] = JNum(Whole(100000))
        /\ C6_SupplyOf(last.upstream[1].body) = JNum(Whole(1000000000)))
         => last.out = [n |-> 1, d |-> 10000]

\* a record with a cap of 100000 and no total_supply gave 0.0001
C6_Witness ==
  /\ last.op = "get_last_price_from_pump_fun"
  /\ C6_Fetched(last.upstream[1])
  /\ DOMAIN last.upstream[1].body.fields = {"name", "usd_market_cap"}
  /\ last.upstream[1].body.fields["usd_market_cap"] = JNum(Whole(100000))
  /\ last.out = [n |-> 1, d |-> 10000]

\* the coin cannot be fetched: the transport fails, the status is not 200 or
\* the body does not decode
C7_NotFetched(resp) ==
  \/ resp = TransportError
  \/ resp.status # 200
  \/ resp.body = BadJson

\* the fetched record's total_supply is a number that is not above 0
C7_SupplyNonPositive(resp) ==
  /\ C6_Fetched(resp)
  /\ "total_supply" \in DOMAIN resp.body.fields
  /\ resp.body.fields["total_supply"].t = "num"
  /\ LeZero(resp.body.fields["total_supply"].v)

\* out is a float
C7_IsFloat(out) == DOMAIN out = {"n", "d"}

\* the price the table of mock mints holds, 0.0 for any other mint
C7_MockOrZero(mint) ==
  IF mint = Mint1 THEN [n |-> 1, d |-> 10000]
  ELSE IF mint = Mint2 THEN [n |-> 1, d |-> 4000]
  ELSE IF mint = Mint3 THEN [n |-> 1, d |-> 2000]
  ELSE [n |-> 0, d |-> 1]

\* C7 (as amended): for every mint and upstream outcome,
\* get_last_price_from_pump_fun never raises; when the coin cannot be
\* fetched or its total_supply is not above 0 it returns 0.0 for every mint
\* outside the table of mock prices, and the table's price (0.0001, 0.00025,
\* 0.0005) for the three mock mints.
C7_NeverRaisesMockOrZero ==
  last.op = "get_last_price_from_pump_fun" =>
    /\ last.out # Raised /\ C7_IsFloat(last.out)
    /\ (C7_NotFetched(last.upstream[1]) \/ C7_SupplyNonPositive(last.upstream[1]))
         => last.out = C7_MockOrZero(last.symbol)

\* the first mock mint could not be fetched and its mock price came back
C7_Witness ==
  /\ last.op = "get_last_price_from_pump_fun"
  /\ last.symbol = Mint1
  /\ last.upstream[1] = TransportError
  /\ last.out = [n |-> 1, d |-> 10000]

\* C7 (as stated): get_last_price_from_pump_fun never raises and returns 0.0
\* whenever the coin cannot be fetched or its total_supply is not above 0.
C7_ZeroWhenUnavailable ==
  last.op = "get_last_price_from_pump_fun" =>
    /\ last.out # Raised /\ C7_IsFloat(last.out)
    /\ (C7_NotFetched(last.upstream[1]) \/ C7_SupplyNonPositive(last.upstream[1]))
         => last.out = [n |-> 0, d |-> 1]

(***************************************************************************)
(* What the cookie parser is said to return, stated without the parser:    *)
(* the entries are the pieces between the separators of the chosen format, *)
(* and the last entry that names a key gives the key's value.              *)
(***************************************************************************)
C8_Separator(s) ==
  IF Contains(s, <<Semicolon, Space>>) THEN <<Semicolon, Space>>
  ELSE IF Contains(s, <<Newline>>) THEN <<Newline>>
  ELSE <<>>

\* the entries of s as [start, text]; one entry when there is no separator
C8_Entries(s) ==
  LET sep == C8_Separator(s)
      cuts == IF sep = <<>> THEN {}
              ELSE {i \in 1..(Len(s) - Len(sep) + 1) : SubSeq(s, i, i + Len(sep) - 1) = sep}
      starts == {1} \cup {i + Len(sep) : i \in cuts}
      EndOf(b) ==
        IF \E i \in cuts : i >= b
        THEN (CHOOSE i \in cuts : i >= b /\ \A j \in cuts : j >= b => i <= j) - 1
        ELSE Len(s)
  IN  {[start |-> b, text |-> SubSeq(s, b, EndOf(b))] : b \in starts}

C8_HasEq(t) == \E i \in 1..Len(t) : t[i] = EqualsSign

C8_FirstEq(t) ==
  CHOOSE i \in 1..Len(t) : t[i] = EqualsSign /\ \A j \in 1..(i - 1) : t[j] # EqualsSign

C8_RawKey(t) == SubSeq(t, 1, C8_FirstEq(t) - 1)

C8_RawValue(t) == SubSeq(t, C8_FirstEq(t) + 1, Len(t))

\* t without its leading and trailing whitespace
C8_Trim(t) ==
  LET solid == {i \in 1..Len(t) : t[i] \notin Whitespace}
  IN  IF solid = {} THEN <<>>
      ELSE SubSeq(t, CHOOSE i \in solid : \A j \in solid : i <= j,
                     CHOOSE i \in solid : \A j \in solid : i >= j)

\* d is the dict of the entries of s, keys and values being taken by Key and Value
C8_IsDictOf(d, s, Key(_), Value(_)) ==
  LET pairs == {e \in C8_Entries(s) : C8_HasEq(e.text)}
  IN  /\ DOMAIN d = {Key(e.text) : e \in pairs}
      /\ \A k \in DOMAIN d :
           \E e \in pairs :
             /\ Key(e.text) = k
             /\ d[k] = Value(e.text)
             /\ \A f \in pairs : Key(f.text) = k => f.start <= e.start

C8_TrimmedKey(t) == C8_Trim(C8_RawKey(t))

C8_TrimmedValue(t) == C8_Trim(C8_RawValue(t))

C8_Examples ==
  /\ last.arg = ExampleA1B2 =>
       last.out = [k \in {<<"a">>, <<"b">>} |-> IF k = <<"a">> THEN <<"1">> ELSE <<"2">>]
  /\ last.arg = ExampleA1NlB2 =>
       last.out = [k \in {<<"a">>, <<"b">>} |-> IF k = <<"a">> THEN <<"1">> ELSE <<"2">>]
  /\ last.arg = ExampleA1 => last.out = [k \in {<<"a">>} |-> <<"1">>]
  /\ last.arg \in {<<>>, ExampleNoEq} => DOMAIN last.out = {}

\* C8 (as amended): in both clients the parser picks one format in the order
\* "; ", newline, single pair; every entry with an '=' gives the text before
\* its first '=' as key and the text after it as value, both trimmed of
\* surrounding whitespace, the last entry of a key standing; entries without
\* '=' are skipped, and the documented examples parse as documented.
C8_ParseTrimmed ==
  last.op = "_parse_cookie_string" /\ last.arg # None =>
    /\ C8_IsDictOf(last.out, last.arg, C8_TrimmedKey, C8_TrimmedValue)
    /\ last.out2 = last.out
    /\ C8_Examples

\* a text with whitespace around its key and its value has been parsed
C8_Witness ==
  /\ last.op = "_parse_cookie_string"
  /\ last.arg = <<" ", "a", "=", " ", "1">>
  /\ last.out = [k \in {<<"a">>} |-> <<"1">>]

\* C8 (as stated): key and value are the raw pieces around the first '='
C8_ParseRaw ==
  last.op = "_parse_cookie_string" /\ last.arg # None =>
    /\ C8_IsDictOf(last.out, last.arg, C8_RawKey, C8_RawValue)
    /\ last.out2 = last.out
    /\ C8_Examples

(***************************************************************************)
(* Claims about the cookie stores, checked under SpecCookies.              *)
(***************************************************************************)
\* C9: a set whose text is empty or malformed (parses to no pairs) clears the
\* source's effective cookies: right after it the client's session jar holds
\* no cookie of an earlier set.
C9_EmptySetClearsJar ==
  /\ last.op = "set_pump_fun_cookie" /\ DOMAIN PumpParseCookieString(last.arg) = {}
       => DOMAIN pump_session_cookies = {}
  /\ last.op = "update_xueqiu_cookie" /\ DOMAIN XueqiuParseCookieString(last.arg) = {}
       => DOMAIN xueqiu_session_cookies = {}

\* jar maps every key of parsed to parsed's value
C10_Carries(jar, parsed) ==
  \A k \in DOMAIN parsed : k \in DOMAIN jar /\ jar[k] = parsed[k]

\* C10: once a source has been set with a text that parses to at least one
\* pair, the shared session's jar maps every parsed key to its parsed value,
\* and every request issued afterwards (until the next set) carries them.
C10_SetTakesEffect ==
  /\ last_set.pump # None =>
       C10_Carries(pump_session_cookies, PumpParseCookieString(last_set.pump))
  /\ last_set.xueqiu # None =>
       C10_Carries(xueqiu_session_cookies, XueqiuParseCookieString(last_set.xueqiu))
  /\ last.op = "request" /\ last.source = "pump" /\ last_set.pump # None =>
       C10_Carries(last.cookies, PumpParseCookieString(last_set.pump))
  /\ last.op = "request" /\ last.source = "xueqiu" /\ last_set.xueqiu # None =>
       C10_Carries(last.cookies, XueqiuParseCookieString(last_set.xueqiu))

(***************************************************************************)
(* Claims about the equity client, checked under Spec.                     *)
(***************************************************************************)
\* what d holds under key k, Absent when d is no dict or has no such key
C11_At(d, k) == IF d.t = "dict" /\ k \in DOMAIN d.fields THEN d.fields[k] ELSE Absent

\* the decoded body of an answer, Absent for a failure or an error status
C11_BodyOf(resp) ==
  IF resp = TransportError THEN Absent
  ELSE IF resp.status # 200 \/ resp.body = BadJson THEN Absent
  ELSE resp.body

\* the current price a quote answer carries
C11_Current(resp) == C11_At(C11_At(C11_At(C11_BodyOf(resp), "data"), "quote"), "current")

\* the float a cell is read as: a number as it is, the texts "150.5" and
\* "42.5" as the numbers they spell, true as 1.0; Absent for any other cell
C11_ValueOf(c) ==
  IF c.t = "num" THEN c.v
  ELSE IF c = JStr(<<"1", "5", "0", ".", "5">>) THEN [n |-> 301, d |-> 2]
  ELSE IF c = JStr(<<"4", "2", ".", "5">>) THEN [n |-> 85, d |-> 2]
  ELSE IF c = JBool(TRUE) THEN [n |-> 1, d |-> 1]
  ELSE Absent

\* x is a price: a float above 0
C11_IsPrice(x) == DOMAIN x = {"n", "d"} /\ x.d > 0 /\ x.n > 0

\* the quote carries a current price above 0
C11_PositiveCurrent(c) == C11_IsPrice(C11_ValueOf(c))

\* the table of the candle answer, and the first row's cell under the first
\* column named "close" (Absent when there is none)
C11_Table(resp) == C11_At(C11_BodyOf(resp), "data")

C11_CloseCell(table) ==
  LET column == C11_At(table, "column")
      item == C11_At(table, "item")
  IN  IF column.t = "list" /\ item.t = "list" /\ item.items # <<>>
         /\ item.items[1].t = "list"
         /\ \E i \in 1..Len(column.items) :
              column.items[i] = JStr(<<"c", "l", "o", "s", "e">>)
      THEN LET i == CHOOSE i \in 1..Len(column.items) :
                      /\ column.items[i] = JStr(<<"c", "l", "o", "s", "e">>)
                      /\ \A j \in 1..(i - 1) :
                           column.items[j] # JStr(<<"c", "l", "o", "s", "e">>)
           IN  IF i <= Len(item.items[1].items) THEN item.items[1].items[i] ELSE Absent
      ELSE Absent

\* C11: get_latest_price asks the quote first; a quote with a current price
\* above 0 is returned as that price and no candle is asked for; the one-day
\* candle is asked for only when the quote failed or gave no price above 0,
\* and then the close found by column name is returned when it is above 0;
\* when neither gives a price above 0 there is no price and
\* get_last_price_from_xueqiu raises.
C11_QuoteThenCandle ==
  last.op = "get_last_price_from_xueqiu" =>
    /\ last.latest.calls[1] = [endpoint |-> "xueqiu/quote", symbol |-> last.symbol]
    /\ IF C11_PositiveCurrent(C11_Current(last.upstream[1]))
       THEN /\ last.latest.out = C11_ValueOf(C11_Current(last.upstream[1]))
            /\ Len(last.latest.calls) = 1
            /\ last.res.out = last.latest.out
       ELSE /\ Len(last.latest.calls) = 2
            /\ last.latest.calls[2].endpoint = "xueqiu/kline"
            /\ last.latest.calls[2].period = <<"d", "a", "y">>
            /\ last.latest.calls[2].count = -1
            /\ Len(last.upstream) = 2
            /\ IF C11_IsPrice(last.latest.out)
               THEN /\ last.latest.out = C11_ValueOf(C11_CloseCell(C11_Table(last.upstream[2])))
                    /\ last.res.out = last.latest.out
               ELSE /\ last.latest.out \in {JNull, Raised}
                    /\ last.res.out = Raised
            /\ C11_IsPrice(C11_ValueOf(C11_CloseCell(C11_Table(last.upstream[2]))))
                 => last.latest.out = C11_ValueOf(C11_CloseCell(C11_Table(last.upstream[2])))
    /\ C11_Current(last.upstream[1]) = JNum([n |-> 301, d |-> 2])
         => last.latest.out = [n |-> 301, d |-> 2] /\ Len(last.latest.calls) = 1

\* a quote with current 150.5 was returned as 150.5 with the quote as the
\* only request
C11_Witness ==
  /\ last.op = "get_last_price_from_xueqiu"
  /\ C11_Current(last.upstream[1]) = JNum([n |-> 301, d |-> 2])
  /\ last.latest.out = [n |-> 301, d |-> 2]
  /\ last.latest.calls = <<[endpoint |-> "xueqiu/quote", symbol |-> last.symbol]>>

\* the upstream's answer reports zero items: a decoded record whose table
\* has no rows
C12_ZeroItems(resp) ==
  /\ C11_BodyOf(resp) # Absent
  /\ C11_BodyOf(resp).t = "dict"
  /\ C11_At(C11_Table(resp), "item") \in {Absent, JNull, JList(<<>>)}

\* the upstream's answer carries an error_code that is a number other than 0
C12_ErrorCode(resp) ==
  /\ C11_BodyOf(resp) # Absent
  /\ C11_At(C11_BodyOf(resp), "error_code").t = "num"
  /\ C11_At(C11_BodyOf(resp), "error_code").v # [n |-> 0, d |-> 1]

\* C12: get_kline_data_from_xueqiu fails whenever the upstream's answer
\* reports zero items or carries an explicit non-zero error_code: no candles
\* are returned and the call raises.
C12_FailsOnEmptyOrErrorCode ==
  (/\ last.op = "get_kline_data_from_xueqiu"
   /\ C12_ZeroItems(last.upstream[1]) \/ C12_ErrorCode(last.upstream[1]))
    => last.res.out = Raised

\* C12, the half the code keeps: an answer that reports zero items makes
\* get_kline_data_from_xueqiu raise.
C12_FailsOnZeroItems ==
  (last.op = "get_kline_data_from_xueqiu" /\ C12_ZeroItems(last.upstream[1]))
    => last.res.out = Raised

\* the fields a candle record may carry
C13_Known ==
  {"timestamp", "open", "high", "low", "close", "volume", "amount", "chg", "percent"}

\* raw_data is a candle table: a record whose data holds a list of column
\* names and a list of rows
C13_IsTable(raw_data) ==
  /\ C11_At(C11_At(raw_data, "data"), "column") # Absent
  /\ C11_At(C11_At(raw_data, "data"), "column").t = "list"
  /\ C11_At(C11_At(raw_data, "data"), "item") # Absent
  /\ C11_At(C11_At(raw_data, "data"), "item").t = "list"

C13_Columns(raw_data) == raw_data.fields["data"].fields["column"].items

C13_Rows(raw_data) == raw_data.fields["data"].fields["item"].items

\* field f is named in columns
C13_Named(columns, f) == \E i \in 1..Len(columns) : columns[i] = JStr(FieldName[f])

\* the cell of a row under the column named f, Absent beyond the row's length
C13_Cell(columns, row, f) ==
  LET i == CHOOSE i \in 1..Len(columns) : columns[i] = JStr(FieldName[f])
  IN  IF i <= Len(row.items) THEN row.items[i] ELSE Absent

\* record is the projection of row: a known field named in columns and
\* within the row has the row's value there, any other known field is absent
C13_Projects(record, columns, row) ==
  /\ record.t = "dict"
  /\ DOMAIN record.fields \subseteq C13_Known \cup {"datetime"}
  /\ \A f \in C13_Known :
       IF C13_Named(columns, f) /\ C13_Cell(columns, row, f) # Absent
       THEN f \in DOMAIN record.fields /\ record.fields[f] = C13_Cell(columns, row, f)
       ELSE f \notin DOMAIN record.fields

\* out holds one record per row, in the rows' order, each the projection of
\* its row
C13_ProjectsAll(out, raw_data) ==
  /\ out # Raised
  /\ out.t = "list"
  /\ Len(out.items) = Len(C13_Rows(raw_data))
  /\ \A r \in 1..Len(out.items) :
       C13_Projects(out.items[r], C13_Columns(raw_data), C13_Rows(raw_data)[r])

\* the table can be converted: it names at least one column, every row is a
\* list, every timestamp is a number and every other known cell is a number
\* or null
C13_Convertible(raw_data) ==
  /\ C13_Columns(raw_data) # <<>>
  /\ \A r \in 1..Len(C13_Rows(raw_data)) :
       /\ C13_Rows(raw_data)[r].t = "list"
       /\ \A f \in C13_Known :
            (C13_Named(C13_Columns(raw_data), f)
               /\ C13_Cell(C13_Columns(raw_data), C13_Rows(raw_data)[r], f) # Absent)
              => \/ C13_Cell(C13_Columns(raw_data), C13_Rows(raw_data)[r], f).t = "num"
                 \/ /\ f # "timestamp"
                    /\ C13_Cell(C13_Columns(raw_data), C13_Rows(raw_data)[r], f) = JNull

\* the documented table: columns timestamp and close, one row
C13_Example ==
  JDict([data |->
    JDict([column |-> JList(<<JStr(FieldName["timestamp"]), JStr(FieldName["close"])>>),
           item |-> JList(<<JList(<<Stamp, JNum([n |-> 85, d |-> 2])>>)>>)])])

C14_Text(coin, key) ==
  IF key \in DOMAIN coin.fields /\ coin.fields[key].t = "str"
  THEN coin.fields[key].s ELSE <<>>

C14_Holds(coin, key, q) == Contains(Lower(C14_Text(coin, key)), Lower(q))

C14_Hit(coin, q) ==
  C14_Holds(coin, "name", q) \/ C14_Holds(coin, "symbol", q) \/ C14_Holds(coin, "description", q)

C14_Hits(coins, q) == LET Test(coin) == C14_Hit(coin, q) IN SelectSeq(coins, Test)

C14_FirstHits(coins, q, limit) ==
  SubSeq(C14_Hits(coins, q), 1, IF Len(C14_Hits(coins, q)) < limit
                                THEN Len(C14_Hits(coins, q)) ELSE limit)

\* a list of records, as the coin-market client returns them
C14_IsCoinList(v) == v.t = "list" /\ \A i \in 1..Len(v.items) : v.items[i].t = "dict"

\* every record's name, symbol and description is a text when present
C14_TextFields(v) ==
  \A i \in 1..Len(v.items) : \A key \in {"name", "symbol", "description"} :
    key \in DOMAIN v.items[i].fields => v.items[i].fields[key].t = "str"

\* C14 (as the claim states it): for every list of coin records, with name,
\* symbol or description absent or null, every query and every limit, search
\* does not raise and returns, in the list's order, the first limit coins
\* that hold the query in one of the three fields ignoring letter case.
C14_SearchNeverRaises ==
  (last.op = "search_coins" /\ C14_IsCoinList(last.all_coins))
    => /\ last.res.status = 200
       /\ last.res.data = JList(C14_FirstHits(last.all_coins.items, last.q, last.limit))

\* C14 (the part the code keeps): the same, for lists whose records have no
\* null under name, symbol or description.
C14_SearchOnTextFields ==
  (last.op = "search_coins" /\ C14_IsCoinList(last.all_coins) /\ C14_TextFields(last.all_coins))
    => /\ last.res.status = 200
       /\ last.res.data = JList(C14_FirstHits(last.all_coins.items, last.q, last.limit))

\* a search cut at the limit, with a coin found by its description only
C14_Cut ==
  /\ last.op = "search_coins" /\ C14_IsCoinList(last.all_coins)
  /\ C14_TextFields(last.all_coins)
  /\ last.res.status = 200
  /\ Len(last.res.data.items) = last.limit
  /\ Len(C14_Hits(last.all_coins.items, last.q)) > last.limit

\* a record with a null name makes the route answer 500
C14_NullName ==
  /\ last.op = "search_coins" /\ C14_IsCoinList(last.all_coins)
  /\ ~C14_TextFields(last.all_coins)
  /\ last.res.status = 500

(***************************************************************************)
(* C15: get_coin_data and get_coin_trades never raise.                     *)
(***************************************************************************)
\* the upstream answered 200 with a body that decodes
C15_Decoded(resp) == resp.net = "ok" /\ resp.status = 200 /\ resp.body # BadJson

C15_OnFailure(op) == IF op = "get_coin_data" THEN JNull ELSE JList(<<>>)

\* C15: get_coin_data and get_coin_trades never raise; on a 200 answer that
\* decodes they return the upstream body, and on every other status and on
\* every transport or decoding failure get_coin_data returns null and
\* get_coin_trades returns the empty sequence.
C15_BodyOn200Only ==
  last.op \in {"get_coin_data", "get_coin_trades"}
    => /\ last.out # Raised
       /\ C15_Decoded(last.upstream[1]) => last.out = last.upstream[1].body
       /\ ~C15_Decoded(last.upstream[1]) => last.out = C15_OnFailure(last.op)

\* an answer with a body under a status that is not 200 gives no trades
C15_Witness ==
  /\ last.op = "get_coin_trades"
  /\ last.upstream[1].net = "ok"
  /\ last.upstream[1].status = 201
  /\ last.upstream[1].body = JList(<<ErrorBody>>)
  /\ last.out = JList(<<>>)

(***************************************************************************)
(* C16: the shapes get_coins_list accepts on a 200 answer.                 *)
(***************************************************************************)
C16_Is200(resp) == resp.net = "ok" /\ resp.status = 200

C16_HasKey(body, key) == body.t = "dict" /\ key \in DOMAIN body.fields

\* the first of the three shapes the body has, the empty sequence when it
\* has none (or does not decode)
C16_FirstShape(body) ==
  IF body = BadJson THEN JList(<<>>)
  ELSE IF body.t = "list" THEN body
  ELSE IF C16_HasKey(body, "data") THEN body.fields["data"]
  ELSE IF C16_HasKey(body, "coins") THEN body.fields["coins"]
  ELSE JList(<<>>)

\* C16 (as the claim states it): on a 200 answer get_coins_list returns the
\* body itself when it is a list, else the value under data, else the value
\* under coins, else the empty sequence; and for every 200 body the result
\* is a sequence, never null or a value that is no sequence.
C16_AlwaysASequence ==
  (last.op = "get_coins_list" /\ C16_Is200(last.upstream[1]))
    => /\ last.out = C16_FirstShape(last.upstream[1].body)
       /\ last.out.t = "list"

\* C16 (the part the code keeps): the order of the three shapes.
C16_ShapeOrder ==
  (last.op = "get_coins_list" /\ C16_Is200(last.upstream[1]))
    => last.out = C16_FirstShape(last.upstream[1].body)

\* a body with both keys: data is taken, coins is not looked at
C16_BothKeys ==
  /\ last.op = "get_coins_list" /\ C16_Is200(last.upstream[1])
  /\ C16_HasKey(last.upstream[1].body, "data") /\ C16_HasKey(last.upstream[1].body, "coins")
  /\ last.out = JList(<<>>)

\* a body whose data is null: the result is null
C16_NullData ==
  /\ last.op = "get_coins_list" /\ C16_Is200(last.upstream[1])
  /\ last.upstream[1].body = JDict([data |-> JNull])
  /\ last.out = JNull

(***************************************************************************)
(* C17: no operation retries a failed request.                             *)
(***************************************************************************)
C17_PumpOps == {"get_coins_list", "get_coin_data", "get_coin_trades"}

C17_Ops == C17_PumpOps \cup {"get_kline_data_from_xueqiu", "get_last_price_from_xueqiu"}

\* the requests the last call sent, in order
C17_Sent ==
  IF last.op \in C17_PumpOps THEN last.calls
  ELSE IF last.op \in C17_Ops THEN last.res.calls
  ELSE <<>>

C17_Count(calls, endpoint) == Cardinality({i \in 1..Len(calls) : calls[i].endpoint = endpoint})

C17_Failed(resp) == resp.net = "error" \/ resp.status # 200 \/ resp.body = BadJson

\* C17: a call of get_coins_list, get_coin_data or get_coin_trades sends
\* exactly one request, get_kline_data_from_xueqiu sends exactly one, and the
\* equity latest price sends at most one quote request and then at most one
\* candle request; no call sends two requests to one endpoint, whether the
\* first one failed or not.
C17_NoRetry ==
  /\ last.op \in C17_PumpOps => Len(C17_Sent) = 1
  /\ last.op = "get_kline_data_from_xueqiu"
       => Len(C17_Sent) = 1 /\ C17_Sent[1].endpoint = "xueqiu/kline"
  /\ last.op = "get_last_price_from_xueqiu"
       => /\ C17_Count(C17_Sent, "xueqiu/quote") <= 1
          /\ C17_Count(C17_Sent, "xueqiu/kline") <= 1
          /\ Len(C17_Sent) = C17_Count(C17_Sent, "xueqiu/quote") + C17_Count(C17_Sent, "xueqiu/kline")
          /\ Len(C17_Sent) = 2 => C17_Sent[1].endpoint = "xueqiu/quote"
  /\ last.op \in C17_Ops
       => \A i, j \in 1..Len(C17_Sent) : i # j => C17_Sent[i].endpoint # C17_Sent[j].endpoint

\* both requests of the latest price failed: the call raises after one
\* request to each endpoint
C17_Witness ==
  /\ last.op = "get_last_price_from_xueqiu"
  /\ Len(last.upstream) = 2
  /\ C17_Failed(last.upstream[1]) /\ C17_Failed(last.upstream[2])
  /\ Len(C17_Sent) = 2
  /\ last.res.out = Raised

\* a failed coin request is answered with null after one request
C17_FailedOnce ==
  /\ last.op = "get_coin_data"
  /\ C17_Failed(last.upstream[1])
  /\ Len(C17_Sent) = 1
  /\ last.out = JNull

(***************************************************************************)
(* C18: the cookie store gives back what was set, checked under            *)
(* SpecCookies.                                                            *)
(***************************************************************************)
\* what get is to give after the most recent set was given latest (None when
\* no set has happened): no value for the empty text, else the text trimmed
C18_Expected(latest) ==
  IF latest = None \/ latest = <<>> THEN None ELSE C8_Trim(latest)

\* C18 (as the claim states it): for each source, get returns the text given
\* to the most recent set on that source, trimmed of surrounding whitespace,
\* and no value when that text was empty or no set has happened.
C18_RoundTrip ==
  /\ last.op = "get_xueqiu_cookie" => last.out = C18_Expected(last_set.equity)
  /\ last.op = "get_pump_fun_cookie" => last.out = C18_Expected(last_set.pump)

\* C18 (the part the code keeps): the equity source gives back what was set.
C18_EquityRoundTrip ==
  last.op = "get_xueqiu_cookie" => last.out = C18_Expected(last_set.equity)

\* the equity store gives back a padded text trimmed
C18_EquityPadded ==
  /\ last.op = "get_xueqiu_cookie"
  /\ last_set.equity = ExamplePadded
  /\ last.out # ExamplePadded
  /\ last.out = C8_Trim(ExamplePadded)

\* the coin-market getter gives no value after a cookie was set
C18_PumpForgets ==
  /\ last.op = "get_pump_fun_cookie"
  /\ last_set.pump = ExampleA1
  /\ pump_fun_cookie_string = ExampleA1
  /\ last.out = None

(***************************************************************************)
(* C19: the mock coins and the mock prices agree.                          *)
(***************************************************************************)
\* the prices the claim names: 0.0001, 0.00025 and 0.0005
C19_Price(mint) ==
  IF mint = Mint1 THEN Frac(1, 10000)
  ELSE IF mint = Mint2 THEN Frac(25, 100000)
  ELSE Frac(5, 10000)

\* the mint, the market cap and the supply a record carries
C19_Mint(coin) == coin.fields["mint"].s

C19_Quotient(coin) == Div(coin.fields["usd_market_cap"].v, coin.fields["total_supply"].v)

\* the coin endpoint gave the record of the mock table for the mint asked
C19_FetchedAsMock ==
  /\ last.upstream[1].net = "ok" /\ last.upstream[1].status = 200
  /\ last.upstream[1].body.t = "dict"
  /\ "mint" \in DOMAIN last.upstream[1].body.fields
  /\ \E i \in 1..Len(MockCoins) : last.upstream[1].body = MockCoins[i]
  /\ C19_Mint(last.upstream[1].body) = last.symbol

\* the coin endpoint gave nothing: the price comes from the table of prices
C19_Resolved ==
  \/ last.upstream[1].net = "error"
  \/ last.upstream[1].net = "ok" /\ last.upstream[1].status # 200

\* C19: each coin the degradation serves has usd_market_cap / total_supply
\* equal to the mock price of its mint (0.0001, 0.00025, 0.0005), and the
\* price derived for a mock mint is that value both when the coin endpoint
\* gives the mock record and when it gives nothing.
C19_MockTablesAgree ==
  /\ (last.op = "get_coins_list" /\ last.upstream[1].net = "ok" /\ last.upstream[1].status = 530)
       => \A i \in 1..Len(last.out.items) :
            /\ C19_Mint(last.out.items[i]) \in MockPriceMints
            /\ C19_Quotient(last.out.items[i]) = MockPrice(C19_Mint(last.out.items[i]))
            /\ C19_Quotient(last.out.items[i]) = C19_Price(C19_Mint(last.out.items[i]))
  /\ (last.op = "get_last_price_from_pump_fun" /\ last.symbol \in MockPriceMints)
       => /\ C19_FetchedAsMock => last.out = C19_Price(last.symbol)
          /\ C19_Resolved => last.out = C19_Price(last.symbol)

\* the price of MoonDoge derived from its mock record
C19_Witness ==
  /\ last.op = "get_last_price_from_pump_fun"
  /\ last.symbol = Mint2
  /\ C19_FetchedAsMock
  /\ last.out = Frac(1, 4000)

(***************************************************************************)
(* C20: the price route never answers not-found.                           *)
(***************************************************************************)
\* the coin-market source resolved a price: a number above 0
C20_Resolved(derived) == derived # Raised /\ derived.d > 0 /\ derived.n > 0

\* C20: get_coin_price never answers 404; a mint whose price is not resolved
\* to a number above 0 gets the 500 answer, and a resolved price gets the
\* success body with that price, which is above 0.
C20_NeverNotFound ==
  last.op = "get_coin_price"
    => /\ last.res.status # 404
       /\ ~C20_Resolved(last.derived) => last.res.status = 500
       /\ C20_Resolved(last.derived)
            => /\ last.res.status = 200
               /\ last.res.data.price = last.derived
               /\ last.res.data.price.n > 0 /\ last.res.data.price.d > 0
               /\ last.res.data.mint_address = last.symbol

\* a mint outside the mock table with nothing from the upstream: the derived
\* price is 0.0 and the answer is 500
C20_Witness ==
  /\ last.op = "get_coin_price"
  /\ last.symbol = OtherMint
  /\ last.upstream[1] = TransportError
  /\ last.derived = Zero
  /\ last.res.status = 500

====
